---- MODULE Spec2Model ----
(***************************************************************************)
(* Task-lifecycle engine of project-mcp: the todos/ directory              *)
(* (ActiveStore), the archive/ directory (ArchiveStore), BACKLOG.md        *)
(* (BacklogStore), the identifier allocators, the dependency resolver,     *)
(* the scheduler and the create / update / promote / archive handlers.     *)
(*                                                                         *)
(* Representation.                                                         *)
(*   - A task id "AUTH-007" is the pair <<"AUTH", 7>>; the three-digit     *)
(*     zero padding makes string order and numeric order agree below 1000. *)
(*   - A directory is a function from the ids of its files to the parsed   *)
(*     front matter plus body of each file.                                *)
(*   - Calendar dates are day numbers 1..MaxDay; 0 stands for an absent    *)
(*     date field.  A due string is represented by its rank in string      *)
(*     order, 0 for an absent due.                                         *)
(*   - BACKLOG.md is the sequence of its lines from the first priority     *)
(*     heading to the trailing rule.                                       *)
(***************************************************************************)
EXTENDS Integers, Sequences, FiniteSets, TLC

(* ------------------------------ bounds -------------------------------- *)

\* largest numeric suffix an allocator may hand out
MaxNum == 2

\* largest numeric suffix in the scheduling runs
MaxSched == 3

\* longest task array handed to the library functions
LibMaxLen == 3

\* last day of the modelled calendar
MaxDay == 2

\* most lines of a document handed to parseTasksFromContent on its own
MaxLines == 4

\* most tool calls in flight at a time
MaxCalls == 2

\* most lines of the queue of BACKLOG.md
MaxDoc == 13

\* most lines of BACKLOG.md where an entry is listed twice and promoted twice
MaxLongDoc == 15

\* most paragraphs of a Description section
MaxParas == 3

\* most checklist lines in the body of a task
MaxSubs == 2

(* ------------------------- program constants -------------------------- *)

VALID_STATUSES == {"todo", "in_progress", "blocked", "review", "done"}

VALID_PRIORITIES == {"P0", "P1", "P2", "P3"}

\* PRIORITY_ORDER[p] ?? 2
PriorityOrder(p) ==
    CASE p = "P0" -> 0
      [] p = "P1" -> 1
      [] p = "P2" -> 2
      [] p = "P3" -> 3
      [] OTHER -> 2

\* get_next_task: limit = 5 when the caller gives none
DefaultLimit == 5

(* --------------------------- input domains ---------------------------- *)

Projects == {"AUTH"}

Ids == Projects \X (1..MaxSched)

NoDate == 0

Owners == {"unassigned", "alice"}

\* String.prototype.toUpperCase on the project prefixes that occur
ToUpper(p) ==
    CASE p = "auth" -> "AUTH"
      [] p = "api" -> "API"
      [] p = "v2" -> "V2"
      [] OTHER -> p

\* /^[A-Z]+-\d+\.md$/ on the file name of id: the prefix is made of the
\* letters A-Z only
IsTaskFile(id) == id[1] \in {"AUTH", "API"}

\* task_id.toUpperCase(): the digits stay as they are
UpperId(id) == <<ToUpper(id[1]), id[2]>>

\* rank of a project prefix in string order
ProjectRank(p) == IF p = "API" THEN 1 ELSE 2

\* a.localeCompare(b) on ids: prefix first, then the padded number
IdCompare(a, b) ==
    IF a[1] # b[1]
    THEN (IF ProjectRank(a[1]) < ProjectRank(b[1]) THEN -1 ELSE 1)
    ELSE IF a[2] < b[2] THEN -1 ELSE IF a[2] > b[2] THEN 1 ELSE 0

\* a.localeCompare(b) on due strings, given by their ranks
DueCompare(a, b) == IF a < b THEN -1 ELSE IF a > b THEN 1 ELSE 0

VARIABLES
    todos,      \* todos/    : id -> task file
    archive,    \* archive/  : id -> task file
    backlog,    \* BACKLOG.md: [exists, lines, updated]
    today,      \* the current date
    result,     \* what the last handler returned
    libTasks,   \* library check: the task array passed in
    libTask,    \* library check: the task whose dependencies are asked about
    libOut,     \* library check: what the function returned
    inflight    \* the tool calls suspended at an await: slot -> local variables

vars == <<todos, archive, backlog, today, result, libTasks, libTask, libOut, inflight>>

stores == <<todos, archive, backlog>>

engineVars == <<todos, archive, backlog, today, result>>

\* what a handler that runs without a break leaves alone
libVars == <<libTasks, libTask, libOut, inflight>>

(* ------------------------------ helpers ------------------------------- *)

Range(s) == {s[i] : i \in DOMAIN s}

Max(S) == CHOOSE x \in S : \A y \in S : y <= x

\* the directory d without the file id
Unlink(d, id) == [i \in DOMAIN d \ {id} |-> d[i]]

\* the directory d after writeFile(id, rec)
WriteFile(d, id, rec) == [i \in DOMAIN d \cup {id} |-> IF i = id THEN rec ELSE d[i]]

RECURSIVE ReaddirOrders(_)
\* every order in which readdir may list the files S
ReaddirOrders(S) ==
    IF S = {} THEN {<<>>}
    ELSE UNION {{<<x>> \o p : p \in ReaddirOrders(S \ {x})} : x \in S}

(* ----------------------- src/lib/tasks.js ----------------------------- *)

\* getNextTaskId: the largest suffix among the files of todos/ whose name
\* matches ^PROJECT-(\d+)\.md$, plus one
getNextTaskIdNum(project, dir) ==
    LET nums == {id[2] : id \in {i \in DOMAIN dir : i[1] = ToUpper(project)}}
        maxNum == IF nums = {} THEN 0 ELSE Max(nums)
    IN  maxNum + 1

getNextTaskId(project, dir) == <<ToUpper(project), getNextTaskIdNum(project, dir)>>

\* loadAllTasks: the files of todos/ named as task files, in the order
\* readdir lists them
loadAllTasks(dir, order) ==
    LET files == SelectSeq(order, IsTaskFile)
    IN  [i \in DOMAIN files |-> dir[files[i]]]

\* taskMap.has(depId)
MapHas(allTasks, depId) == \E i \in DOMAIN allTasks : allTasks[i].id = depId

\* taskMap.get(depId): a later array element replaces an earlier one
MapGet(allTasks, depId) ==
    allTasks[Max({i \in DOMAIN allTasks : allTasks[i].id = depId})]

RECURSIVE DepsLoopFailOpen(_, _, _)
\* DepsLoop with `!dep ||` dropped: an id without a record counts as met
DepsLoopFailOpen(deps, i, allTasks) ==
    IF i > Len(deps) THEN TRUE
    ELSE IF MapHas(allTasks, deps[i]) /\ MapGet(allTasks, deps[i]).status # "done" THEN FALSE
    ELSE DepsLoopFailOpen(deps, i + 1, allTasks)

RECURSIVE DepsLoop(_, _, _)
\* the for loop of areDependenciesMet, from position i
DepsLoop(deps, i, allTasks) ==
    IF i > Len(deps) THEN TRUE
    ELSE IF ~MapHas(allTasks, deps[i]) THEN FALSE
    ELSE IF MapGet(allTasks, deps[i]).status # "done" THEN FALSE
    ELSE DepsLoop(deps, i + 1, allTasks)

\* areDependenciesMet with the task's own id skipped in the loop
areDependenciesMetSkipSelf(task, allTasks) ==
    IF "depends_on" \notin DOMAIN task THEN TRUE
    ELSE IF Len(task.depends_on) = 0 THEN TRUE
    ELSE DepsLoop(SelectSeq(task.depends_on, LAMBDA d : d # task.id), 1, allTasks)

areDependenciesMet(task, allTasks) ==
    IF "depends_on" \notin DOMAIN task THEN TRUE
    ELSE IF Len(task.depends_on) = 0 THEN TRUE
    ELSE DepsLoop(task.depends_on, 1, allTasks)

\* SortCompare without its two in_progress lines
SortCompareNoStatus(a, b) ==
    IF PriorityOrder(a.priority) # PriorityOrder(b.priority)
    THEN PriorityOrder(a.priority) - PriorityOrder(b.priority)
    ELSE IF a.due # NoDate /\ b.due # NoDate THEN DueCompare(a.due, b.due)
    ELSE IF a.due # NoDate THEN -1
    ELSE IF b.due # NoDate THEN 1
    ELSE IdCompare(a.id, b.id)

\* the comparator handed to Array.prototype.sort
SortCompare(a, b) ==
    IF a.status = "in_progress" /\ b.status # "in_progress" THEN -1
    ELSE IF b.status = "in_progress" /\ a.status # "in_progress" THEN 1
    ELSE IF PriorityOrder(a.priority) # PriorityOrder(b.priority)
         THEN PriorityOrder(a.priority) - PriorityOrder(b.priority)
    ELSE IF a.due # NoDate /\ b.due # NoDate THEN DueCompare(a.due, b.due)
    ELSE IF a.due # NoDate THEN -1
    ELSE IF b.due # NoDate THEN 1
    ELSE IdCompare(a.id, b.id)

\* x placed into the sorted sequence s behind every element that does not
\* compare greater than it (Array.prototype.sort is stable)
SortInsert(s, x) ==
    LET later == {i \in DOMAIN s : SortCompare(s[i], x) > 0}
        pos == IF later = {} THEN Len(s) + 1
               ELSE CHOOSE i \in later : \A j \in later : i <= j
    IN  SubSeq(s, 1, pos - 1) \o <<x>> \o SubSeq(s, pos, Len(s))

RECURSIVE SortFrom(_, _, _)
SortFrom(tasks, i, acc) ==
    IF i > Len(tasks) THEN acc
    ELSE SortFrom(tasks, i + 1, SortInsert(acc, tasks[i]))

sortTasksByPriority(tasks) == SortFrom(tasks, 1, <<>>)

(* --------------------------- BACKLOG.md ------------------------------- *)

\* "### P0 - Critical" and the three other bucket headings
Hdr(p) == [k |-> "hdr", pri |-> p]

Blank == [k |-> "blank"]

\* the rule and the hint that close the document
Rule == [k |-> "rule"]

\* "- [mark] **id**: title [tags] (phase)"
Entry(mark, id, title, tags, phase) ==
    [k |-> "entry", mark |-> mark, id |-> id, title |-> title,
     tags |-> tags, phase |-> phase]

\* "  - text"
SubLine(text) == [k |-> "sub", text |-> text]

\* the document written when BACKLOG.md does not exist
DefaultBacklogLines ==
    <<Hdr("P0"), Blank, Hdr("P1"), Blank, Hdr("P2"), Blank, Hdr("P3"), Blank, Rule>>

NoBacklog == [exists |-> FALSE, lines |-> <<>>, lastUpdated |-> NoDate, updated |-> NoDate]

\* the file read, or the default document stamped with the current date
ReadOrCreateBacklog(b, now) ==
    IF b.exists THEN b
    ELSE [exists |-> TRUE, lines |-> DefaultBacklogLines,
          lastUpdated |-> now, updated |-> now]

\* ids matched by /\*\*([A-Z]+-\d+)\*\*/g in BACKLOG.md
BacklogIds(b) == {b.lines[i].id : i \in {j \in DOMAIN b.lines : b.lines[j].k = "entry"}}

\* getExistingTaskIds: todos/, archive/ and BACKLOG.md (the prefix argument
\* is not used by the function)
getExistingTaskIds(projectPrefix, tdir, adir, b) ==
    {id \in DOMAIN tdir \cup DOMAIN adir : IsTaskFile(id)}
        \cup (IF b.exists THEN BacklogIds(b) ELSE {})

RECURSIVE NextFreeNum(_, _, _)
\* while (existingIds.has(prefix-nextNum)) nextNum++
NextFreeNum(project, existingIds, nextNum) ==
    IF <<project, nextNum>> \in existingIds
    THEN NextFreeNum(project, existingIds, nextNum + 1)
    ELSE nextNum

RECURSIVE SubstituteItems(_, _)
RECURSIVE InsertFrom(_, _, _, _)
\* a title in which String.prototype.replace finds the pattern $1
DollarTitle == "Pay $1"

\* String.prototype.replace on a replacement string that holds title: $1 is
\* replaced by the first group of the match, which is the text of the section
\* heading of g1 where an entry is inserted after a heading, and the
\* "- [ ] **ID**:" of the entry itself where g1 is "entry"
Substitute(title, g1) ==
    CASE title # DollarTitle -> title
      [] g1 = "entry" -> "Pay - [ ] **ID**:"
      [] g1 = "P0" -> "Pay ### P0 - Critical"
      [] g1 = "P1" -> "Pay ### P1 - High Priority"
      [] g1 = "P2" -> "Pay ### P2 - Medium Priority"
      [] OTHER -> "Pay ### P3 - Low Priority"

\* the lines of newItems once $1 is replaced by "heading\n": the line of an
\* entry whose title holds $1 ends after the heading text, and what followed
\* the title is a line of its own
SubstituteItems(newItems, pri) ==
    IF newItems = <<>> THEN <<>>
    ELSE LET l == Head(newItems)
             rest == SubstituteItems(Tail(newItems), pri)
         IN  IF l.k = "entry" /\ l.title = DollarTitle
             THEN <<[l EXCEPT !.title = Substitute(@, pri), !.tags = <<>>, !.phase = ""],
                    IF l.tags = <<>> /\ l.phase = "" THEN Blank ELSE [k |-> "text"]>>
                     \o rest
             ELSE <<l>> \o rest

\* the line is the text of the section heading of pri up to its end
EndsWithHeader(line, pri) ==
    \/ line = Hdr(pri)
    \/ /\ line.k = "entry"
       /\ line.title = Substitute(DollarTitle, pri)
       /\ line.tags = <<>> /\ line.phase = ""

InsertFrom(lines, pri, ins, i) ==
    IF i > Len(lines) THEN <<>>
    ELSE <<lines[i]>> \o (IF EndsWithHeader(lines[i], pri) THEN ins ELSE <<>>)
            \o InsertFrom(lines, pri, ins, i + 1)

\* backlogContent.replace(/(sectionHeader\n)/g, `$1${newItems}\n`): the new
\* lines go after every line that ends with the heading text
InsertAfterHeader(lines, pri, newItems, trailing) ==
    InsertFrom(lines, pri, SubstituteItems(newItems, pri) \o trailing, 1)

RECURSIVE CollapseFrom(_, _, _)
CollapseFrom(lines, i, acc) ==
    IF i > Len(lines) THEN acc
    ELSE IF lines[i] = Blank /\ Len(acc) > 0 /\ acc[Len(acc)] = Blank
         THEN CollapseFrom(lines, i + 1, acc)
         ELSE CollapseFrom(lines, i + 1, Append(acc, lines[i]))

\* backlog.replace(/\n{3,}/g, '\n\n'): a run of empty lines becomes one
CollapseBlankLines(lines) == CollapseFrom(lines, 1, <<>>)

\* FindEntry with the id left out of the pattern
FindEntryAnyId(lines, id, marks) ==
    LET at == {i \in DOMAIN lines : lines[i].k = "entry" /\ lines[i].mark \in marks}
    IN  IF at = {} THEN 0 ELSE CHOOSE i \in at : \A j \in at : i <= j

\* index of the first line "- [mark] **id**: ..." with mark among marks, 0 if none
FindEntry(lines, id, marks) ==
    LET at == {i \in DOMAIN lines :
                  lines[i].k = "entry" /\ lines[i].id = id /\ lines[i].mark \in marks}
    IN  IF at = {} THEN 0 ELSE CHOOSE i \in at : \A j \in at : i <= j

RECURSIVE LastSubLine(_, _)
\* (?:\n  - .+$)* : the last of the subtask lines that follow line i
LastSubLine(lines, i) ==
    IF i + 1 <= Len(lines) /\ lines[i + 1].k = "sub"
    THEN LastSubLine(lines, i + 1)
    ELSE i

\* beforeTask.includes('### Pn') for the text before line i
BeforeIncludes(lines, i, p) == \E j \in 1..(i - 1) : lines[j] = Hdr(p)

\* promoteTask: the priority read off the text before the entry
DetectPriority(lines, i) ==
    IF BeforeIncludes(lines, i, "P0") THEN "P0"
    ELSE IF BeforeIncludes(lines, i, "P1") THEN "P1"
    ELSE IF BeforeIncludes(lines, i, "P2") THEN "P2"
    ELSE IF BeforeIncludes(lines, i, "P3") THEN "P3"
    ELSE "P2"

(* ----------------------- parseTasksFromContent ------------------------ *)

\* A source line is a level-2 heading, a level-3 heading, a checklist or
\* bullet item, or some other text.  An item carries its indentation and
\* what the parser looks at in its title: raw is the title as written, text
\* the title with the bracketed tokens removed, tags the bracketed tokens,
\* short whether it has fewer than 3 characters, reserved whether it starts
\* with note:, see:, ref: or link:, keywords the priority keywords it contains.
H2(text) == [k |-> "h2", text |-> text]

H3(text) == [k |-> "h3", text |-> text]

Item(indent, title) == [k |-> "item", indent |-> indent, title |-> title]

\* "# text": trimmed.match finds neither ^##\s+ nor ^###\s+ nor a list marker
H1(text) == [k |-> "h1", text |-> text]

\* an item indented by one tab: line.search(/\S/) counts characters, and is 1
TabItem(title) == [k |-> "item", indent |-> 1, title |-> title, tab |-> TRUE]

\* A title as written is a sequence of tokens separated by single blanks:
\* words, and bracketed tokens such as [security].
Word(s) == [k |-> "word", s |-> s]

Bracket(s) == [k |-> "tag", s |-> s]

\* String.prototype.toLowerCase, on the strings the documents use
toLowerCase(s) ==
    CASE s = "Security" -> "security"
      [] s = "Note:" -> "note:"
      [] s = "Urgent" -> "urgent"
      [] s = "Follow" -> "follow"
      [] OTHER -> s

\* the length of the strings the documents use
StrLen(s) ==
    CASE s \in {"ab", "up"} -> 2
      [] s \in {"Fix", "Add", "Sub", "low"} -> 3
      [] s \in {"high"} -> 4
      [] s \in {"Follow", "follow"} -> 6
      [] s \in {"critical"} -> 8
      [] s \in {"x"} -> 1
      [] s \in {"note:", "Note:"} -> 5
      [] s \in {"urgent", "Urgent"} -> 6
      [] s \in {"security", "Security"} -> 8

TokenLen(t) == IF t.k = "tag" THEN StrLen(t.s) + 2 ELSE StrLen(t.s)

RECURSIVE TokensLen(_, _)
TokensLen(tokens, i) ==
    IF i > Len(tokens) THEN 0 ELSE TokenLen(tokens[i]) + TokensLen(tokens, i + 1)

\* title.length: the tokens and the blanks between them
TitleLength(tokens) ==
    IF Len(tokens) = 0 THEN 0 ELSE TokensLen(tokens, 1) + (Len(tokens) - 1)

\* /^(note:|see:|ref:|link:)/i.test(title)
IsReserved(tokens) ==
    /\ Len(tokens) > 0
    /\ tokens[1].k = "word"
    /\ toLowerCase(tokens[1].s) \in {"note:", "see:", "ref:", "link:"}

RECURSIVE Trim(_)
\* String.prototype.trim: an empty word stands for the blank left where a
\* token was cut out
Trim(tokens) ==
    IF Len(tokens) = 0 THEN tokens
    ELSE IF tokens[1] = Word("") THEN Trim(Tail(tokens))
    ELSE IF tokens[Len(tokens)] = Word("") THEN Trim(SubSeq(tokens, 1, Len(tokens) - 1))
    ELSE tokens

\* title.match(/\[([^\]]+)\]/g).map(t => t.slice(1, -1).toLowerCase())
TagMatch(tokens) ==
    LET bs == SelectSeq(tokens, LAMBDA t : t.k = "tag")
    IN  [i \in DOMAIN bs |-> toLowerCase(bs[i].s)]

\* title.replace(/\[[^\]]+\]/g, '').trim()
StripTags(tokens) ==
    Trim([i \in DOMAIN tokens |-> IF tokens[i].k = "tag" THEN Word("") ELSE tokens[i]])

\* String.prototype.includes(keyword) on the lower-case strings the
\* documents use: a keyword is found wherever its letters stand, inside a
\* longer word too
Includes(s, keyword) ==
    \/ s = keyword
    \/ s = "follow" /\ keyword = "low"

\* what parseTasksFromContent computes from the title of an item line; no
\* keyword holds a blank, so the title includes a keyword when a token does
TitleOf(tokens) ==
    [raw |-> tokens,
     text |-> StripTags(tokens),
     tags |-> TagMatch(tokens),
     short |-> TitleLength(tokens) < 3,
     reserved |-> IsReserved(tokens),
     keywords |-> {kw \in {"critical", "blocker", "urgent", "high", "important",
                             "medium", "normal", "low", "minor", "nice-to-have"} :
                      \E i \in DOMAIN tokens : Includes(toLowerCase(tokens[i].s), kw)}]

\* h2Match[1].replace(/[*_]/g, '').trim(), on the headings the documents use
StripEmphasis(s) ==
    CASE s = "**MVP**" -> "MVP"
      [] s = "release_1" -> "release1"
      [] OTHER -> s

\* Object.entries(PRIORITY_KEYWORDS), in insertion order
PRIORITY_KEYWORDS ==
    << <<"critical", "P0">>, <<"blocker", "P0">>, <<"urgent", "P0">>,
       <<"high", "P1">>, <<"important", "P1">>,
       <<"medium", "P2">>, <<"normal", "P2">>,
       <<"low", "P3">>, <<"minor", "P3">>, <<"nice-to-have", "P3">> >>

\* KeywordPriority with the last table keyword the title includes
KeywordPriorityLastHit(title, defaultPriority) ==
    LET hits == {i \in DOMAIN PRIORITY_KEYWORDS : PRIORITY_KEYWORDS[i][1] \in title.keywords}
    IN  IF hits = {} THEN defaultPriority
        ELSE PRIORITY_KEYWORDS[CHOOSE i \in hits : \A j \in hits : i >= j][2]

\* the priority of the first table keyword the title includes
KeywordPriority(title, defaultPriority) ==
    LET hits == {i \in DOMAIN PRIORITY_KEYWORDS : PRIORITY_KEYWORDS[i][1] \in title.keywords}
    IN  IF hits = {} THEN defaultPriority
        ELSE PRIORITY_KEYWORDS[CHOOSE i \in hits : \A j \in hits : i <= j][2]

RECURSIVE ParseLoopH3KeepsParent(_, _, _, _, _, _, _)
\* ParseLoop with currentParent left as it is at a level-3 heading
ParseLoopH3KeepsParent(lines, i, tasks, phase, section, parent, defaultPriority) ==
    IF i > Len(lines) THEN tasks
    ELSE LET line == lines[i] IN
      CASE line.k = "h2" ->
             ParseLoopH3KeepsParent(lines, i + 1, tasks, StripEmphasis(line.text), "", 0, defaultPriority)
        [] line.k = "h3" ->
             ParseLoopH3KeepsParent(lines, i + 1, tasks, phase, StripEmphasis(line.text), parent, defaultPriority)
        [] line.k = "item" ->
             IF line.title.short \/ line.title.reserved
             THEN ParseLoopH3KeepsParent(lines, i + 1, tasks, phase, section, parent, defaultPriority)
             ELSE IF line.indent > 2 /\ parent # 0
             THEN ParseLoopH3KeepsParent(lines, i + 1,
                            [tasks EXCEPT ![parent].subtasks = Append(@, line.title.raw)],
                            phase, section, parent, defaultPriority)
             ELSE ParseLoopH3KeepsParent(lines, i + 1,
                            Append(tasks,
                              [title |-> IF Len(line.title.tags) > 0
                                         THEN line.title.text ELSE line.title.raw,
                               priority |-> KeywordPriority(line.title, defaultPriority),
                               phase |-> phase,
                               section |-> section,
                               isParent |-> line.indent <= 2,
                               subtasks |-> <<>>,
                               tags |-> line.title.tags]),
                            phase, section, Len(tasks) + 1, defaultPriority)
        [] OTHER ->
             ParseLoopH3KeepsParent(lines, i + 1, tasks, phase, section, parent, defaultPriority)

RECURSIVE ParseLoopH3SetsPhase(_, _, _, _, _, _, _)
\* ParseLoop with a level-3 heading taken for the phase
ParseLoopH3SetsPhase(lines, i, tasks, phase, section, parent, defaultPriority) ==
    IF i > Len(lines) THEN tasks
    ELSE LET line == lines[i] IN
      CASE line.k = "h2" ->
             ParseLoopH3SetsPhase(lines, i + 1, tasks, StripEmphasis(line.text), "", 0, defaultPriority)
        [] line.k = "h3" ->
             ParseLoopH3SetsPhase(lines, i + 1, tasks, StripEmphasis(line.text), "", 0, defaultPriority)
        [] line.k = "item" ->
             IF line.title.short \/ line.title.reserved
             THEN ParseLoopH3SetsPhase(lines, i + 1, tasks, phase, section, parent, defaultPriority)
             ELSE IF line.indent > 2 /\ parent # 0
             THEN ParseLoopH3SetsPhase(lines, i + 1,
                            [tasks EXCEPT ![parent].subtasks = Append(@, line.title.raw)],
                            phase, section, parent, defaultPriority)
             ELSE ParseLoopH3SetsPhase(lines, i + 1,
                            Append(tasks,
                              [title |-> IF Len(line.title.tags) > 0
                                         THEN line.title.text ELSE line.title.raw,
                               priority |-> KeywordPriority(line.title, defaultPriority),
                               phase |-> phase,
                               section |-> section,
                               isParent |-> line.indent <= 2,
                               subtasks |-> <<>>,
                               tags |-> line.title.tags]),
                            phase, section, Len(tasks) + 1, defaultPriority)
        [] OTHER ->
             ParseLoopH3SetsPhase(lines, i + 1, tasks, phase, section, parent, defaultPriority)

RECURSIVE ParseLoop(_, _, _, _, _, _, _)
\* the for loop of parseTasksFromContent from line i; parent is the index of
\* the task named by currentParent, 0 when currentParent is null
ParseLoop(lines, i, tasks, phase, section, parent, defaultPriority) ==
    IF i > Len(lines) THEN tasks
    ELSE LET line == lines[i] IN
      CASE line.k = "h2" ->
             ParseLoop(lines, i + 1, tasks, StripEmphasis(line.text), "", 0, defaultPriority)
        [] line.k = "h3" ->
             ParseLoop(lines, i + 1, tasks, phase, StripEmphasis(line.text), 0, defaultPriority)
        [] line.k = "item" ->
             IF line.title.short \/ line.title.reserved
             THEN ParseLoop(lines, i + 1, tasks, phase, section, parent, defaultPriority)
             ELSE IF line.indent > 2 /\ parent # 0
             THEN ParseLoop(lines, i + 1,
                            [tasks EXCEPT ![parent].subtasks = Append(@, line.title.raw)],
                            phase, section, parent, defaultPriority)
             ELSE ParseLoop(lines, i + 1,
                            Append(tasks,
                              [title |-> IF Len(line.title.tags) > 0
                                         THEN line.title.text ELSE line.title.raw,
                               priority |-> KeywordPriority(line.title, defaultPriority),
                               phase |-> phase,
                               section |-> section,
                               isParent |-> line.indent <= 2,
                               subtasks |-> <<>>,
                               tags |-> line.title.tags]),
                            phase, section, Len(tasks) + 1, defaultPriority)
        [] OTHER ->
             ParseLoop(lines, i + 1, tasks, phase, section, parent, defaultPriority)

parseTasksFromContent(content, project, defaultPriority) ==
    ParseLoop(content, 1, <<>>, "", "", 0, defaultPriority)

(* ----------------------------- handlers ------------------------------- *)

NoId == <<"", 0>>

Result(op, id, kind, isError) ==
    [op |-> op, id |-> id, kind |-> kind, isError |-> isError, out |-> <<>>]

\* the markdown body of a task file: the Description section, if there is
\* one, as the sequence of its paragraphs, and the Subtasks section, if
\* there is one, as its checklist
Body(hasDesc, desc, hasSubs, subs) ==
    [hasDesc |-> hasDesc, desc |-> desc, hasSubs |-> hasSubs, subs |-> subs,
     notes |-> <<>>]

\* CreateTask with the project written as the caller gave it
CreateTaskRawProject(a) ==
    LET id == getNextTaskId(a.project, todos)
        rec == [id |-> id, title |-> a.title, project |-> a.project,
                priority |-> a.priority, status |-> a.status, owner |-> a.owner,
                depends_on |-> a.depends_on, blocked_by |-> a.blocked_by,
                tags |-> a.tags, created |-> today, updated |-> today,
                completed |-> NoDate, archived |-> NoDate,
                estimate |-> a.estimate, due |-> a.due, phase |-> "",
                body |-> Body(a.description # "", IF a.description # "" THEN <<a.description>> ELSE <<>>,
                              Len(a.subtasks) > 0,
                              [i \in DOMAIN a.subtasks |-> [text |-> a.subtasks[i], done |-> FALSE]])]
    IN  /\ todos' = WriteFile(todos, id, rec)
        /\ result' = Result("create_task", id, "ok", FALSE)
        /\ UNCHANGED <<archive, backlog, today, libVars>>

\* createTask
CreateTask(a) ==
    LET id == getNextTaskId(a.project, todos)
        rec == [id |-> id, title |-> a.title, project |-> ToUpper(a.project),
                priority |-> a.priority, status |-> a.status, owner |-> a.owner,
                depends_on |-> a.depends_on, blocked_by |-> a.blocked_by,
                tags |-> a.tags, created |-> today, updated |-> today,
                completed |-> NoDate, archived |-> NoDate,
                estimate |-> a.estimate, due |-> a.due, phase |-> "",
                body |-> Body(a.description # "", IF a.description # "" THEN <<a.description>> ELSE <<>>,
                              Len(a.subtasks) > 0,
                              [i \in DOMAIN a.subtasks |-> [text |-> a.subtasks[i], done |-> FALSE]])]
    IN  /\ todos' = WriteFile(todos, id, rec)
        /\ result' = Result("create_task", id, "ok", FALSE)
        /\ UNCHANGED <<archive, backlog, today, libVars>>

\* createTask up to its first await: getNextTaskId has listed todos/ and
\* returned the id; the call is suspended before the file is written
CreateGetId(c, a) ==
    /\ c \notin DOMAIN inflight
    /\ inflight' = WriteFile(inflight, c,
                        [op |-> "create_task", a |-> a, files |-> DOMAIN todos,
                         id |-> getNextTaskId(a.project, todos)])
    /\ UNCHANGED <<engineVars, libTasks, libTask, libOut>>

\* CreateWriteFile opening the file with the flag wx: an existing file is kept
CreateWriteFileExclusive(c) ==
    /\ c \in DOMAIN inflight
    /\ inflight[c].op = "create_task"
    /\ LET a == inflight[c].a
            id == inflight[c].id
            rec == [id |-> id, title |-> a.title, project |-> ToUpper(a.project),
                    priority |-> a.priority, status |-> a.status, owner |-> a.owner,
                    depends_on |-> a.depends_on, blocked_by |-> a.blocked_by,
                    tags |-> a.tags, created |-> today, updated |-> today,
                    completed |-> NoDate, archived |-> NoDate,
                    estimate |-> a.estimate, due |-> a.due, phase |-> "",
                    body |-> Body(a.description # "",
                                  IF a.description # "" THEN <<a.description>> ELSE <<>>,
                                  Len(a.subtasks) > 0,
                                  [i \in DOMAIN a.subtasks |->
                                      [text |-> a.subtasks[i], done |-> FALSE]])]
        IN  /\ todos' = IF id \in DOMAIN todos THEN todos ELSE WriteFile(todos, id, rec)
            /\ result' = Result("create_task", id, "ok", FALSE)
    /\ inflight' = Unlink(inflight, c)
    /\ UNCHANGED <<archive, backlog, today, libTasks, libTask, libOut>>

\* createTask from the await of getNextTaskId on: the front matter and the
\* body are built and writeFile puts the file at todos/<id>.md
CreateWriteFile(c) ==
    /\ c \in DOMAIN inflight
    /\ inflight[c].op = "create_task"
    /\ LET a == inflight[c].a
            id == inflight[c].id
            rec == [id |-> id, title |-> a.title, project |-> ToUpper(a.project),
                    priority |-> a.priority, status |-> a.status, owner |-> a.owner,
                    depends_on |-> a.depends_on, blocked_by |-> a.blocked_by,
                    tags |-> a.tags, created |-> today, updated |-> today,
                    completed |-> NoDate, archived |-> NoDate,
                    estimate |-> a.estimate, due |-> a.due, phase |-> "",
                    body |-> Body(a.description # "",
                                  IF a.description # "" THEN <<a.description>> ELSE <<>>,
                                  Len(a.subtasks) > 0,
                                  [i \in DOMAIN a.subtasks |->
                                      [text |-> a.subtasks[i], done |-> FALSE]])]
        IN  /\ todos' = WriteFile(todos, id, rec)
            /\ result' = Result("create_task", id, "ok", FALSE)
    /\ inflight' = Unlink(inflight, c)
    /\ UNCHANGED <<archive, backlog, today, libTasks, libTask, libOut>>

\* the field f of the update u when the caller gave it, else the old value
Upd(u, f, old) == IF f \in DOMAIN u THEN u[f] ELSE old

\* String.prototype.startsWith('append:') on the description values used
StartsWithAppend(s) == s \in {"append:More", "append:"}

\* String.prototype.substring(7) on the values that start with append:
Substring7(s) ==
    CASE s = "append:More" -> "More"
      [] s = "append:" -> ""
      [] OTHER -> ""

\* updateTask: the Description section after a description argument; both
\* regular expressions need the heading "## Description" to be in the body,
\* and a body without it is left as it is
UpdateDescription(body, u) ==
    IF "description" \notin DOMAIN u THEN body
    ELSE IF StartsWithAppend(u.description)
    THEN (IF body.hasDesc
          THEN [body EXCEPT !.desc = Append(@, Substring7(u.description))]
          ELSE body)
    ELSE (IF body.hasDesc
          THEN [body EXCEPT !.desc = <<u.description>>]
          ELSE body)

\* updateTask: the checklists of the body after add_subtask and then
\* complete_subtask. The new line goes to the end of what the regular
\* expression takes for the Subtasks section: the section's lines, or, when
\* the section is empty, the rest of the text, which is the Notes section;
\* without a Subtasks heading the section is written before "## Notes".
\* complete_subtask ticks the first open line of the text that holds the words
UpdateSubtasks(body, u) ==
    LET item == [text |-> u.add_subtask, done |-> FALSE]
        added == IF "add_subtask" \notin DOMAIN u \/ u.add_subtask = "" THEN body
                 ELSE IF ~body.hasSubs
                 THEN [body EXCEPT !.hasSubs = TRUE, !.subs = <<item>>]
                 ELSE IF body.subs # <<>>
                 THEN [body EXCEPT !.subs = Append(@, item)]
                 ELSE [body EXCEPT !.notes = Append(@, item)]
        Open(list) == {i \in DOMAIN list :
                          ~list[i].done /\ Includes(list[i].text, u.complete_subtask)}
        First(S) == CHOOSE i \in S : \A j \in S : i <= j
    IN  IF "complete_subtask" \notin DOMAIN u \/ u.complete_subtask = "" THEN added
        ELSE IF Open(added.subs) # {}
        THEN [added EXCEPT !.subs[First(Open(added.subs))].done = TRUE]
        ELSE IF Open(added.notes) # {}
        THEN [added EXCEPT !.notes[First(Open(added.notes))].done = TRUE]
        ELSE added

\* UpdateTask stamping completed on every update to done
UpdateTaskAlwaysStamps(task_id, u) ==
    LET id == UpperId(task_id) IN
    IF id \notin DOMAIN todos
    THEN /\ result' = Result("update_task", id, "not_found", TRUE)
         /\ UNCHANGED <<todos, archive, backlog, today, libVars>>
    ELSE LET data == todos[id]
             newStatus == Upd(u, "status", data.status)
             rec == [data EXCEPT
                       !.title = Upd(u, "title", @),
                       !.owner = Upd(u, "owner", @),
                       !.priority = Upd(u, "priority", @),
                       !.status = newStatus,
                       !.completed = IF "status" \in DOMAIN u /\ u.status = "done"
                                     THEN today ELSE @,
                       !.estimate = Upd(u, "estimate", @),
                       !.due = Upd(u, "due", @),
                       !.depends_on = Upd(u, "depends_on", @),
                       !.blocked_by = Upd(u, "blocked_by", @),
                       !.tags = Upd(u, "tags", @),
                       !.body = UpdateSubtasks(UpdateDescription(@, u), u),
                       !.updated = today]
         IN  /\ todos' = WriteFile(todos, id, rec)
             /\ result' = Result("update_task", id, "ok", FALSE)
             /\ UNCHANGED <<archive, backlog, today, libVars>>

\* UpdateTask moving a todo task to in_progress when a subtask is completed
UpdateTaskStartsWork(task_id, u) ==
    LET id == UpperId(task_id) IN
    IF id \notin DOMAIN todos
    THEN /\ result' = Result("update_task", id, "not_found", TRUE)
         /\ UNCHANGED <<todos, archive, backlog, today, libVars>>
    ELSE LET data == todos[id]
             newStatus == IF "complete_subtask" \in DOMAIN u /\ data.status = "todo"
                          THEN "in_progress"
                          ELSE Upd(u, "status", data.status)
             rec == [data EXCEPT
                       !.title = Upd(u, "title", @),
                       !.owner = Upd(u, "owner", @),
                       !.priority = Upd(u, "priority", @),
                       !.status = newStatus,
                       !.completed = IF "status" \in DOMAIN u /\ u.status = "done"
                                        /\ data.status # "done"
                                     THEN today ELSE @,
                       !.estimate = Upd(u, "estimate", @),
                       !.due = Upd(u, "due", @),
                       !.depends_on = Upd(u, "depends_on", @),
                       !.blocked_by = Upd(u, "blocked_by", @),
                       !.tags = Upd(u, "tags", @),
                       !.body = UpdateSubtasks(UpdateDescription(@, u), u),
                       !.updated = today]
         IN  /\ todos' = WriteFile(todos, id, rec)
             /\ result' = Result("update_task", id, "ok", FALSE)
             /\ UNCHANGED <<archive, backlog, today, libVars>>

\* updateTask
UpdateTask(task_id, u) ==
    LET id == UpperId(task_id) IN
    IF id \notin DOMAIN todos
    THEN /\ result' = Result("update_task", id, "not_found", TRUE)
         /\ UNCHANGED <<todos, archive, backlog, today, libVars>>
    ELSE LET data == todos[id]
             newStatus == Upd(u, "status", data.status)
             rec == [data EXCEPT
                       !.title = Upd(u, "title", @),
                       !.owner = Upd(u, "owner", @),
                       !.priority = Upd(u, "priority", @),
                       !.status = newStatus,
                       !.completed = IF "status" \in DOMAIN u /\ u.status = "done"
                                        /\ data.status # "done"
                                     THEN today ELSE @,
                       !.estimate = Upd(u, "estimate", @),
                       !.due = Upd(u, "due", @),
                       !.depends_on = Upd(u, "depends_on", @),
                       !.blocked_by = Upd(u, "blocked_by", @),
                       !.tags = Upd(u, "tags", @),
                       !.body = UpdateSubtasks(UpdateDescription(@, u), u),
                       !.updated = today]
         IN  /\ todos' = WriteFile(todos, id, rec)
             /\ result' = Result("update_task", id, "ok", FALSE)
             /\ UNCHANGED <<archive, backlog, today, libVars>>

\* IsCandidate without the areDependenciesMet line
IsCandidateNoDeps(task, allTasks, a) ==
    /\ task.status # "done"
    /\ (a.include_blocked \/ task.status # "blocked")
    /\ (a.owner = "" \/ task.owner = a.owner)
    /\ (a.project = "" \/ task.project = ToUpper(a.project))

\* IsCandidate without the owner line
IsCandidateNoOwner(task, allTasks, a) ==
    /\ task.status # "done"
    /\ (a.include_blocked \/ task.status # "blocked")
    /\ (a.project = "" \/ task.project = ToUpper(a.project))
    /\ areDependenciesMet(task, allTasks)

\* getNextTask: the filter
IsCandidate(task, allTasks, a) ==
    /\ task.status # "done"
    /\ (a.include_blocked \/ task.status # "blocked")
    /\ (a.owner = "" \/ task.owner = a.owner)
    /\ (a.project = "" \/ task.project = ToUpper(a.project))
    /\ areDependenciesMet(task, allTasks)

\* getNextTask: the tasks returned when readdir lists todos/ in this order
getNextTaskOut(dir, order, a) ==
    LET allTasks == loadAllTasks(dir, order)
        candidates == SelectSeq(allTasks, LAMBDA t : IsCandidate(t, allTasks, a))
        sorted == sortTasksByPriority(candidates)
    IN  SubSeq(sorted, 1, IF a.limit < Len(sorted) THEN a.limit ELSE Len(sorted))

\* getNextTask
GetNextTask(a) ==
    \E order \in ReaddirOrders(DOMAIN todos) :
        LET out == getNextTaskOut(todos, order, a)
        IN  /\ result' = [Result("get_next_task", NoId,
                                  IF Len(out) = 0 THEN "no_tasks" ELSE "ok", FALSE)
                             EXCEPT !.out = [i \in DOMAIN out |-> out[i].id]]
            /\ UNCHANGED <<todos, archive, backlog, today, libVars>>

\* ArchiveTask that also ticks the backlog entry of the task it moves
ArchiveTaskTicksEntry(task_id, force) ==
    LET id == UpperId(task_id)
        i == FindEntry(backlog.lines, id, {"promoted"})
    IN  IF id \notin DOMAIN todos
        THEN /\ result' = Result("archive_task", id, "not_found", TRUE)
             /\ UNCHANGED <<todos, archive, backlog, today, libVars>>
        ELSE IF todos[id].status # "done" /\ ~force
        THEN /\ result' = Result("archive_task", id, "not_done", FALSE)
             /\ UNCHANGED <<todos, archive, backlog, today, libVars>>
        ELSE /\ archive' = WriteFile(archive, id,
                              [todos[id] EXCEPT !.archived = today, !.updated = today])
             /\ todos' = Unlink(todos, id)
             /\ backlog' = IF i = 0 THEN backlog
                           ELSE [backlog EXCEPT !.lines[i].mark = "x"]
             /\ result' = Result("archive_task", id, "ok", FALSE)
             /\ UNCHANGED <<today, libVars>>

\* ArchiveTask without the check of status and force
ArchiveTaskNoStatusCheck(task_id, force) ==
    LET id == UpperId(task_id) IN
    IF id \notin DOMAIN todos
    THEN /\ result' = Result("archive_task", id, "not_found", TRUE)
         /\ UNCHANGED <<todos, archive, backlog, today, libVars>>
    ELSE /\ archive' = WriteFile(archive, id,
                          [todos[id] EXCEPT !.archived = today, !.updated = today])
         /\ todos' = Unlink(todos, id)
         /\ result' = Result("archive_task", id, "ok", FALSE)
         /\ UNCHANGED <<backlog, today, libVars>>

\* archiveTask
ArchiveTask(task_id, force) ==
    LET id == UpperId(task_id) IN
    IF id \notin DOMAIN todos
    THEN /\ result' = Result("archive_task", id, "not_found", TRUE)
         /\ UNCHANGED <<todos, archive, backlog, today, libVars>>
    ELSE IF todos[id].status # "done" /\ ~force
    THEN /\ result' = Result("archive_task", id, "not_done", FALSE)
         /\ UNCHANGED <<todos, archive, backlog, today, libVars>>
    ELSE /\ archive' = WriteFile(archive, id,
                          [todos[id] EXCEPT !.archived = today, !.updated = today])
         /\ todos' = Unlink(todos, id)
         /\ result' = Result("archive_task", id, "ok", FALSE)
         /\ UNCHANGED <<backlog, today, libVars>>

\* ArchiveWriteArchive with the two file operations in the other order:
\* the active file is deleted first
ArchiveUnlinkFirst(c, task_id, force) ==
    LET id == UpperId(task_id) IN
    /\ c \notin DOMAIN inflight
    /\ IF id \notin DOMAIN todos
       THEN /\ result' = Result("archive_task", id, "not_found", TRUE)
            /\ UNCHANGED <<todos, archive, backlog, today, libVars>>
       ELSE IF todos[id].status # "done" /\ ~force
       THEN /\ result' = Result("archive_task", id, "not_done", FALSE)
            /\ UNCHANGED <<todos, archive, backlog, today, libVars>>
       ELSE /\ todos' = Unlink(todos, id)
            /\ inflight' = WriteFile(inflight, c, [op |-> "archive_task", id |-> id])
            /\ UNCHANGED <<archive, backlog, today, result, libTasks, libTask, libOut>>

\* archiveTask up to the await of unlink: the checks are made and the
\* record, stamped archived and updated, is written to archive/
ArchiveWriteArchive(c, task_id, force) ==
    LET id == UpperId(task_id) IN
    /\ c \notin DOMAIN inflight
    /\ IF id \notin DOMAIN todos
       THEN /\ result' = Result("archive_task", id, "not_found", TRUE)
            /\ UNCHANGED <<todos, archive, backlog, today, libVars>>
       ELSE IF todos[id].status # "done" /\ ~force
       THEN /\ result' = Result("archive_task", id, "not_done", FALSE)
            /\ UNCHANGED <<todos, archive, backlog, today, libVars>>
       ELSE /\ archive' = WriteFile(archive, id,
                             [todos[id] EXCEPT !.archived = today, !.updated = today])
            /\ inflight' = WriteFile(inflight, c, [op |-> "archive_task", id |-> id])
            /\ UNCHANGED <<todos, backlog, today, result, libTasks, libTask, libOut>>

\* archiveTask from unlink(activeFile) on
ArchiveUnlink(c) ==
    /\ c \in DOMAIN inflight
    /\ inflight[c].op = "archive_task"
    /\ todos' = Unlink(todos, inflight[c].id)
    /\ result' = Result("archive_task", inflight[c].id, "ok", FALSE)
    /\ inflight' = Unlink(inflight, c)
    /\ UNCHANGED <<archive, backlog, today, libTasks, libTask, libOut>>

\* the backlog lines of one candidate: its entry, then its subtasks
EntryLines(id, task) ==
    <<Entry(" ", id, task.title, task.tags, task.phase)>>
        \o [i \in DOMAIN task.subtasks |-> SubLine(task.subtasks[i])]

RECURSIVE AssignIds(_, _, _, _, _)
\* importTasks: the ids given to tasks[i..], nextNum being the next number to try
AssignIds(tasks, i, project, existingIds, nextNum) ==
    IF i > Len(tasks) THEN <<>>
    ELSE LET n == NextFreeNum(project, existingIds, nextNum)
         IN  <<(<<project, n>>)>>
                \o AssignIds(tasks, i + 1, project, existingIds \cup {<<project, n>>}, n + 1)

RECURSIVE BucketItems(_, _, _, _)
\* importTasks: newItems for one priority section, tasks in source order
BucketItems(tasks, ids, pri, i) ==
    IF i > Len(tasks) THEN <<>>
    ELSE (IF tasks[i].priority = pri THEN EntryLines(ids[i], tasks[i]) ELSE <<>>)
            \o BucketItems(tasks, ids, pri, i + 1)

\* importTasks: one pass of the loop over ['P0', 'P1', 'P2', 'P3']
InsertBucket(lines, tasks, ids, pri) ==
    LET newItems == BucketItems(tasks, ids, pri, 1)
    IN  IF Len(newItems) = 0 THEN lines
        ELSE InsertAfterHeader(lines, pri, newItems, <<Blank>>)

\* importTasks: phase && phase.toLowerCase().includes(filter.toLowerCase())
PhaseIncludes(phase, filter) == phase # "" /\ phase = filter

\* ImportTasks writing BACKLOG.md on a dry run too
ImportTasksWritesOnDryRun(a) ==
    LET project == ToUpper(a.project)
        parsed == parseTasksFromContent(a.content, project, a.default_priority)
        tasks == IF a.phase = "" THEN parsed
                 ELSE SelectSeq(parsed, LAMBDA t : PhaseIncludes(t.phase, a.phase))
        existingIds == getExistingTaskIds(project, todos, archive, backlog)
        ids == AssignIds(tasks, 1, project, existingIds, 1)
        b0 == ReadOrCreateBacklog(backlog, today)
        l0 == InsertBucket(b0.lines, tasks, ids, "P0")
        l1 == InsertBucket(l0, tasks, ids, "P1")
        l2 == InsertBucket(l1, tasks, ids, "P2")
        l3 == InsertBucket(l2, tasks, ids, "P3")
    IN  IF Len(tasks) = 0
        THEN /\ result' = Result("import_tasks", NoId, "no_tasks", FALSE)
             /\ UNCHANGED <<todos, archive, backlog, today, libVars>>
        ELSE /\ IF a.dry_run
                THEN /\ result' = [Result("import_tasks", NoId, "dry_run", FALSE)
                                     EXCEPT !.out = ids]
                     /\ backlog' = [exists |-> TRUE, lines |-> l3,
                                    lastUpdated |-> today, updated |-> today]
                ELSE /\ backlog' = [exists |-> TRUE, lines |-> l3,
                                    lastUpdated |-> today, updated |-> today]
                     /\ result' = [Result("import_tasks", NoId, "ok", FALSE)
                                     EXCEPT !.out = ids]
             /\ UNCHANGED <<todos, archive, today, libVars>>

\* importTasks (inline content)
ImportTasks(a) ==
    LET project == ToUpper(a.project)
        parsed == parseTasksFromContent(a.content, project, a.default_priority)
        tasks == IF a.phase = "" THEN parsed
                 ELSE SelectSeq(parsed, LAMBDA t : PhaseIncludes(t.phase, a.phase))
        existingIds == getExistingTaskIds(project, todos, archive, backlog)
        ids == AssignIds(tasks, 1, project, existingIds, 1)
        b0 == ReadOrCreateBacklog(backlog, today)
        l0 == InsertBucket(b0.lines, tasks, ids, "P0")
        l1 == InsertBucket(l0, tasks, ids, "P1")
        l2 == InsertBucket(l1, tasks, ids, "P2")
        l3 == InsertBucket(l2, tasks, ids, "P3")
    IN  IF Len(tasks) = 0
        THEN /\ result' = Result("import_tasks", NoId, "no_tasks", FALSE)
             /\ UNCHANGED <<todos, archive, backlog, today, libVars>>
        ELSE /\ IF a.dry_run
                THEN /\ result' = [Result("import_tasks", NoId, "dry_run", FALSE)
                                     EXCEPT !.out = ids]
                     /\ UNCHANGED backlog
                ELSE /\ backlog' = [exists |-> TRUE, lines |-> l3,
                                    lastUpdated |-> today, updated |-> today]
                     /\ result' = [Result("import_tasks", NoId, "ok", FALSE)
                                     EXCEPT !.out = ids]
             /\ UNCHANGED <<todos, archive, today, libVars>>

\* addToBacklog
AddToBacklog(a) ==
    LET projectPrefix == ToUpper(a.project)
        existingIds == getExistingTaskIds(projectPrefix, todos, archive, backlog)
        taskId == <<projectPrefix, NextFreeNum(projectPrefix, existingIds, 1)>>
        b0 == ReadOrCreateBacklog(backlog, today)
        section == IF a.priority \in {"P0", "P1", "P2"} THEN a.priority ELSE "P3"
        taskEntry == EntryLines(taskId, a)
    IN  /\ backlog' = [exists |-> TRUE,
                       lines |-> InsertAfterHeader(b0.lines, section, taskEntry, <<Blank>>),
                       lastUpdated |-> today, updated |-> today]
        /\ result' = Result("add_to_backlog", taskId, "ok", FALSE)
        /\ UNCHANGED <<todos, archive, today, libVars>>

\* PromoteTask without the check that the task is already active
PromoteTaskNoActiveCheck(a) ==
    LET id == UpperId(a.task_id)
        i == FindEntry(backlog.lines, id, {" "})
    IN  IF ~backlog.exists \/ i = 0
        THEN /\ result' = Result("promote_task", id, "not_found", TRUE)
             /\ UNCHANGED <<todos, archive, backlog, today, libVars>>
        ELSE LET e == backlog.lines[i]
                 taskPriority == IF a.priority # "" THEN a.priority
                                 ELSE DetectPriority(backlog.lines, i)
                 rec == [id |-> id, title |-> e.title, project |-> id[1],
                         priority |-> taskPriority, status |-> "todo",
                         owner |-> a.owner, depends_on |-> a.depends_on,
                         blocked_by |-> <<>>, tags |-> e.tags,
                         created |-> today, updated |-> today,
                         completed |-> NoDate, archived |-> NoDate,
                         estimate |-> a.estimate, due |-> a.due, phase |-> e.phase,
                         body |-> Body(TRUE, <<"Promoted from backlog.">>, TRUE, <<>>)]
             IN  /\ todos' = WriteFile(todos, id, rec)
                 /\ backlog' = [backlog EXCEPT !.lines[i].mark = "promoted",
                                               !.lastUpdated = today]
                 /\ result' = Result("promote_task", id, "ok", FALSE)
                 /\ UNCHANGED <<archive, today, libVars>>

\* promoteTask
PromoteTask(a) ==
    LET id == UpperId(a.task_id)
        i == FindEntry(backlog.lines, id, {" "})
    IN  IF id \in DOMAIN todos
        THEN /\ result' = Result("promote_task", id, "already_active", FALSE)
             /\ UNCHANGED <<todos, archive, backlog, today, libVars>>
        ELSE IF ~backlog.exists \/ i = 0
        THEN /\ result' = Result("promote_task", id, "not_found", TRUE)
             /\ UNCHANGED <<todos, archive, backlog, today, libVars>>
        ELSE LET e == backlog.lines[i]
                 taskPriority == IF a.priority # "" THEN a.priority
                                 ELSE DetectPriority(backlog.lines, i)
                 rec == [id |-> id, title |-> e.title, project |-> id[1],
                         priority |-> taskPriority, status |-> "todo",
                         owner |-> a.owner, depends_on |-> a.depends_on,
                         blocked_by |-> <<>>, tags |-> e.tags,
                         created |-> today, updated |-> today,
                         completed |-> NoDate, archived |-> NoDate,
                         estimate |-> a.estimate, due |-> a.due, phase |-> e.phase,
                         body |-> Body(TRUE, <<"Promoted from backlog.">>, TRUE, <<>>)]
             IN  /\ todos' = WriteFile(todos, id, rec)
                 /\ backlog' = [backlog EXCEPT !.lines[i].mark = "promoted",
                                               !.lastUpdated = today]
                 /\ result' = Result("promote_task", id, "ok", FALSE)
                 /\ UNCHANGED <<archive, today, libVars>>

\* promoteTask up to the await of writeFile(BACKLOG_FILE): the checks are
\* made, BACKLOG.md is read into the local variable backlog and the task
\* file is written to todos/
PromoteWriteActive(c, a) ==
    LET id == UpperId(a.task_id)
        i == FindEntry(backlog.lines, id, {" "})
    IN  /\ c \notin DOMAIN inflight
        /\ IF id \in DOMAIN todos
           THEN /\ result' = Result("promote_task", id, "already_active", FALSE)
                /\ UNCHANGED <<todos, archive, backlog, today, libVars>>
           ELSE IF ~backlog.exists \/ i = 0
           THEN /\ result' = Result("promote_task", id, "not_found", TRUE)
                /\ UNCHANGED <<todos, archive, backlog, today, libVars>>
           ELSE LET e == backlog.lines[i]
                    taskPriority == IF a.priority # "" THEN a.priority
                                    ELSE DetectPriority(backlog.lines, i)
                    rec == [id |-> id, title |-> e.title, project |-> id[1],
                            priority |-> taskPriority, status |-> "todo",
                            owner |-> a.owner, depends_on |-> a.depends_on,
                            blocked_by |-> <<>>, tags |-> e.tags,
                            created |-> today, updated |-> today,
                            completed |-> NoDate, archived |-> NoDate,
                            estimate |-> a.estimate, due |-> a.due, phase |-> e.phase,
                            body |-> Body(TRUE, <<"Promoted from backlog.">>, TRUE, <<>>)]
                IN  /\ todos' = WriteFile(todos, id, rec)
                    /\ inflight' = WriteFile(inflight, c,
                                        [op |-> "promote_task", id |-> id,
                                         backlog |-> backlog, at |-> i])
                    /\ UNCHANGED <<archive, backlog, today, result, libTasks, libTask, libOut>>

\* promoteTask from the marking on: the entry is marked in the text read
\* before, the date line is refreshed and BACKLOG.md is written
PromoteMark(c) ==
    /\ c \in DOMAIN inflight
    /\ inflight[c].op = "promote_task"
    /\ backlog' = [inflight[c].backlog EXCEPT !.lines[inflight[c].at].mark = "promoted",
                                               !.lastUpdated = today]
    /\ result' = Result("promote_task", inflight[c].id, "ok", FALSE)
    /\ inflight' = Unlink(inflight, c)
    /\ UNCHANGED <<todos, archive, today, libTasks, libTask, libOut>>

\* What a backlog handler has in hand once its reads are done, and what it
\* then writes: existingIds is the set getExistingTaskIds returned, b the
\* text of BACKLOG.md it read.  kind is "ok" when the handler goes on to
\* write doc, and names the early return otherwise.
ImportDoc(a, existingIds, b, now) ==
    LET project == ToUpper(a.project)
        parsed == parseTasksFromContent(a.content, project, a.default_priority)
        tasks == IF a.phase = "" THEN parsed
                 ELSE SelectSeq(parsed, LAMBDA t : PhaseIncludes(t.phase, a.phase))
        ids == AssignIds(tasks, 1, project, existingIds, 1)
        b0 == ReadOrCreateBacklog(b, now)
        l0 == InsertBucket(b0.lines, tasks, ids, "P0")
        l1 == InsertBucket(l0, tasks, ids, "P1")
        l2 == InsertBucket(l1, tasks, ids, "P2")
        l3 == InsertBucket(l2, tasks, ids, "P3")
    IN  [kind |-> IF Len(tasks) = 0 THEN "no_tasks"
                  ELSE IF a.dry_run THEN "dry_run" ELSE "ok",
         id |-> NoId, out |-> IF Len(tasks) = 0 THEN <<>> ELSE ids, isError |-> FALSE,
         doc |-> [exists |-> TRUE, lines |-> l3, lastUpdated |-> now, updated |-> now]]

AddDoc(a, existingIds, b, now) ==
    LET projectPrefix == ToUpper(a.project)
        taskId == <<projectPrefix, NextFreeNum(projectPrefix, existingIds, 1)>>
        b0 == ReadOrCreateBacklog(b, now)
        section == IF a.priority \in {"P0", "P1", "P2"} THEN a.priority ELSE "P3"
        taskEntry == EntryLines(taskId, a)
    IN  [kind |-> "ok", id |-> taskId, out |-> <<>>, isError |-> FALSE,
         doc |-> [exists |-> TRUE,
                  lines |-> InsertAfterHeader(b0.lines, section, taskEntry, <<Blank>>),
                  lastUpdated |-> now, updated |-> now]]

UpdateItemDoc(a, b, now) ==
    LET id == UpperId(a.task_id)
        i == FindEntry(b.lines, id, {" ", "x"})
    IN  IF ~b.exists \/ i = 0
        THEN [kind |-> "not_found", id |-> id, out |-> <<>>, isError |-> TRUE, doc |-> b]
        ELSE LET e == b.lines[i]
                 newEntry == Entry(" ", id,
                                   IF a.title # "" THEN a.title ELSE e.title,
                                   Upd(a, "tags", e.tags),
                                   Upd(a, "phase", e.phase))
                 inPlace == [newEntry EXCEPT !.title = Substitute(@, "entry")]
                 section == IF a.priority \in {"P0", "P1", "P2"} THEN a.priority ELSE "P3"
                 removed == CollapseBlankLines([b.lines EXCEPT ![i] = Blank])
                 moved == InsertAfterHeader(removed, section, <<newEntry>>, <<>>)
             IN  [kind |-> "ok", id |-> id, out |-> <<>>, isError |-> FALSE,
                  doc |-> [exists |-> TRUE,
                           lines |-> IF a.priority # "" THEN moved
                                     ELSE [b.lines EXCEPT ![i] = inPlace],
                           lastUpdated |-> now, updated |-> now]]

RemoveDoc(a, b, now) ==
    LET id == UpperId(a.task_id)
        i == FindEntry(b.lines, id, {" ", "x"})
    IN  IF ~b.exists \/ i = 0
        THEN [kind |-> "not_found", id |-> id, out |-> <<>>, isError |-> TRUE, doc |-> b]
        ELSE LET j == LastSubLine(b.lines, i)
                 cut == SubSeq(b.lines, 1, i - 1) \o <<Blank>>
                           \o SubSeq(b.lines, j + 1, Len(b.lines))
             IN  [kind |-> "ok", id |-> id, out |-> <<>>, isError |-> FALSE,
                  doc |-> [exists |-> TRUE, lines |-> CollapseBlankLines(cut),
                           lastUpdated |-> now, updated |-> now]]

\* the handler named op, from its reads to what it writes
BacklogDoc(op, a, existingIds, b, now) ==
    CASE op = "import_tasks" -> ImportDoc(a, existingIds, b, now)
      [] op = "add_to_backlog" -> AddDoc(a, existingIds, b, now)
      [] op = "update_backlog_item" -> UpdateItemDoc(a, b, now)
      [] op = "remove_from_backlog" -> RemoveDoc(a, b, now)

\* a backlog handler up to its await of writeFile(BACKLOG_FILE): the ids
\* and BACKLOG.md are read; an early return ends the call here
BacklogRead(c, op, a) ==
    LET existingIds == getExistingTaskIds(IF "project" \in DOMAIN a
                                          THEN ToUpper(a.project) ELSE "",
                                          todos, archive, backlog)
        r == BacklogDoc(op, a, existingIds, backlog, today)
    IN  /\ c \notin DOMAIN inflight
        /\ IF r.kind = "ok"
           THEN /\ inflight' = WriteFile(inflight, c,
                                   [op |-> op, a |-> a, existingIds |-> existingIds,
                                    backlog |-> backlog])
                /\ UNCHANGED <<engineVars, libTasks, libTask, libOut>>
           ELSE /\ result' = [op |-> op, id |-> r.id, kind |-> r.kind,
                               isError |-> r.isError, out |-> r.out]
                /\ UNCHANGED <<todos, archive, backlog, today, libVars>>

\* BacklogWrite reading BACKLOG.md again just before it writes
BacklogWriteFresh(c) ==
    /\ c \in DOMAIN inflight
    /\ inflight[c].op \in {"import_tasks", "add_to_backlog", "update_backlog_item",
                            "remove_from_backlog"}
    /\ LET r == BacklogDoc(inflight[c].op, inflight[c].a,
                            getExistingTaskIds("", todos, archive, backlog),
                            backlog, today)
       IN  /\ backlog' = r.doc
           /\ result' = [op |-> inflight[c].op, id |-> r.id, kind |-> r.kind,
                          isError |-> r.isError, out |-> r.out]
    /\ inflight' = Unlink(inflight, c)
    /\ UNCHANGED <<todos, archive, today, libTasks, libTask, libOut>>

\* a backlog handler from writeFile(BACKLOG_FILE) on: the text it built
\* from what it read replaces the file
BacklogWrite(c) ==
    /\ c \in DOMAIN inflight
    /\ inflight[c].op \in {"import_tasks", "add_to_backlog", "update_backlog_item",
                            "remove_from_backlog"}
    /\ LET r == BacklogDoc(inflight[c].op, inflight[c].a, inflight[c].existingIds,
                            inflight[c].backlog, today)
       IN  /\ backlog' = r.doc
           /\ result' = [op |-> inflight[c].op, id |-> r.id, kind |-> r.kind,
                          isError |-> r.isError, out |-> r.out]
    /\ inflight' = Unlink(inflight, c)
    /\ UNCHANGED <<todos, archive, today, libTasks, libTask, libOut>>

\* the server process stops: the calls in flight are gone, the files stay
Crash ==
    /\ inflight # <<>>
    /\ inflight' = <<>>
    /\ UNCHANGED <<engineVars, libTasks, libTask, libOut>>

\* updateBacklogItem
UpdateBacklogItem(a) ==
    LET id == UpperId(a.task_id)
        i == FindEntry(backlog.lines, id, {" ", "x"})
    IN  IF ~backlog.exists \/ i = 0
        THEN /\ result' = Result("update_backlog_item", id, "not_found", TRUE)
             /\ UNCHANGED <<todos, archive, backlog, today, libVars>>
        ELSE LET e == backlog.lines[i]
                 newEntry == Entry(" ", id,
                                   IF a.title # "" THEN a.title ELSE e.title,
                                   Upd(a, "tags", e.tags),
                                   Upd(a, "phase", e.phase))
                 inPlace == [newEntry EXCEPT !.title = Substitute(@, "entry")]
                 section == IF a.priority \in {"P0", "P1", "P2"} THEN a.priority ELSE "P3"
                 removed == CollapseBlankLines([backlog.lines EXCEPT ![i] = Blank])
                 moved == InsertAfterHeader(removed, section, <<newEntry>>, <<>>)
             IN  /\ backlog' = [exists |-> TRUE,
                                lines |-> IF a.priority # "" THEN moved
                                          ELSE [backlog.lines EXCEPT ![i] = inPlace],
                                lastUpdated |-> today, updated |-> today]
                 /\ result' = Result("update_backlog_item", id, "ok", FALSE)
                 /\ UNCHANGED <<todos, archive, today, libVars>>

\* RemoveFromBacklog matching an entry whatever its checkbox holds
RemoveFromBacklogAnyMark(task_id) ==
    LET id == UpperId(task_id)
        i == FindEntry(backlog.lines, id, {" ", "x", "promoted"})
    IN  IF ~backlog.exists \/ i = 0
        THEN /\ result' = Result("remove_from_backlog", id, "not_found", TRUE)
             /\ UNCHANGED <<todos, archive, backlog, today, libVars>>
        ELSE LET j == LastSubLine(backlog.lines, i)
                 cut == SubSeq(backlog.lines, 1, i - 1) \o <<Blank>>
                           \o SubSeq(backlog.lines, j + 1, Len(backlog.lines))
             IN  /\ backlog' = [exists |-> TRUE, lines |-> CollapseBlankLines(cut),
                                lastUpdated |-> today, updated |-> today]
                 /\ result' = Result("remove_from_backlog", id, "ok", FALSE)
                 /\ UNCHANGED <<todos, archive, today, libVars>>

\* removeFromBacklog
RemoveFromBacklog(task_id) ==
    LET id == UpperId(task_id)
        i == FindEntry(backlog.lines, id, {" ", "x"})
    IN  IF ~backlog.exists \/ i = 0
        THEN /\ result' = Result("remove_from_backlog", id, "not_found", TRUE)
             /\ UNCHANGED <<todos, archive, backlog, today, libVars>>
        ELSE LET j == LastSubLine(backlog.lines, i)
                 cut == SubSeq(backlog.lines, 1, i - 1) \o <<Blank>>
                           \o SubSeq(backlog.lines, j + 1, Len(backlog.lines))
             IN  /\ backlog' = [exists |-> TRUE, lines |-> CollapseBlankLines(cut),
                                lastUpdated |-> today, updated |-> today]
                 /\ result' = Result("remove_from_backlog", id, "ok", FALSE)
                 /\ UNCHANGED <<todos, archive, today, libVars>>

\* normalizePriority, on the priority strings the calls use
normalizePriority(priority) ==
    CASE priority = "" -> "P2"
      [] priority \in {"critical", "highest", "P0", "p0"} -> "P0"
      [] priority \in {"high", "P1", "p1"} -> "P1"
      [] priority \in {"medium", "normal", "P2", "p2"} -> "P2"
      [] priority \in {"low", "lowest", "P3", "p3"} -> "P3"
      [] OTHER -> "P2"

\* lintProjectDocs, the task files: with fix an invalid priority is
\* replaced in the file by its normal form, and a missing updated line is
\* added after the created line; a task that lists its own id in depends_on
\* is reported as an issue of type error ("Circular dependency: task depends
\* on itself"), in the order readdir lists the files; out holds these ids
LintProjectDocs(a) ==
    LET checked == IF a.scope \in {"all", "tasks"}
                   THEN {id \in DOMAIN todos : IsTaskFile(id)} ELSE {}
        badPriority == {id \in checked : /\ todos[id].priority # ""
                                          /\ todos[id].priority \notin VALID_PRIORITIES}
        noUpdated == {id \in checked : todos[id].updated = NoDate}
        circular == {id \in checked : id \in Range(todos[id].depends_on)}
        fixedFile(id) ==
            LET r1 == IF id \in badPriority
                      THEN [todos[id] EXCEPT !.priority = normalizePriority(@)]
                      ELSE todos[id]
            IN  IF id \in noUpdated THEN [r1 EXCEPT !.updated = today] ELSE r1
    IN  \E order \in ReaddirOrders(circular) :
        /\ todos' = IF a.fix THEN [id \in DOMAIN todos |-> fixedFile(id)] ELSE todos
        /\ result' = [Result("lint_project_docs", NoId,
                              IF badPriority \cup noUpdated \cup circular = {}
                              THEN "clean"
                              ELSE IF a.fix /\ circular = {} THEN "fixed"
                              ELSE "issues",
                              FALSE)
                         EXCEPT !.out = order]
        /\ UNCHANGED <<archive, backlog, today, libVars>>

\* the calendar moves on to the next day
Tick ==
    /\ today < MaxDay
    /\ today' = today + 1
    /\ UNCHANGED <<todos, archive, backlog, result, libVars>>

(* ------------------------- the calls that are made -------------------- *)

\* every id some store holds
IdsInUse(tdir, adir, b) == DOMAIN tdir \cup DOMAIN adir \cup BacklogIds(b)

\* the step allocates no number above cap
Within(cap) == \A id \in IdsInUse(todos', archive', backlog') : id[2] <= cap

CreateArg(p, st, d) ==
    [title |-> "Task", project |-> p, description |-> "", owner |-> "unassigned",
     priority |-> "P2", status |-> st, depends_on |-> d, blocked_by |-> <<>>,
     estimate |-> "", due |-> NoDate, tags |-> <<>>, subtasks |-> <<>>]

GetNextArg(l) == [owner |-> "", project |-> "", include_blocked |-> FALSE, limit |-> l]

\* create_task calls that give every argument, or leave it out, in five
\* groups: the project in either case or with a digit, the scalar fields,
\* the list fields, estimate and due, and the two body sections
CreateInputs ==
    {[title |-> IF g1 THEN "Fix login" ELSE "Task",
      project |-> p,
      priority |-> IF g1 THEN "P0" ELSE "P2",
      status |-> IF g1 THEN "in_progress" ELSE "todo",
      owner |-> IF g1 THEN "alice" ELSE "unassigned",
      depends_on |-> IF g2 THEN <<(<<"AUTH", 1>>), (<<"API", 1>>)>> ELSE <<>>,
      blocked_by |-> IF g2 THEN <<(<<"API", 1>>)>> ELSE <<>>,
      tags |-> IF g2 THEN <<"security", "backend">> ELSE <<>>,
      estimate |-> IF g3 THEN "2h" ELSE "",
      due |-> IF g3 THEN 1 ELSE NoDate,
      description |-> IF g4 THEN "Text" ELSE "",
      subtasks |-> IF g4 THEN <<"First", "Second">> ELSE <<>>] :
        p \in {"AUTH", "auth", "v2"}, g1 \in BOOLEAN, g2 \in BOOLEAN,
        g3 \in BOOLEAN, g4 \in BOOLEAN}

\* the get_next_task calls with filters: an owner or none, a project (in
\* either case) or none, blocked tasks included or not, limit 1 or default
FilterArgs ==
    {[owner |-> ow, project |-> p, include_blocked |-> ib, limit |-> l] :
        ow \in {"", "alice"}, p \in {"", "auth", "API"}, ib \in BOOLEAN,
        l \in {1, DefaultLimit}}

\* the ids the filtered runs work with
FilterIds == {<<"AUTH", 1>>, <<"AUTH", 2>>, <<"API", 1>>}

PromoteArg(id) ==
    [task_id |-> id, owner |-> "unassigned", priority |-> "", depends_on |-> <<>>,
     estimate |-> "", due |-> NoDate]

AddArg(p) ==
    [title |-> "Task", project |-> p, priority |-> "P2", tags |-> <<>>,
     phase |-> "", subtasks |-> <<>>]

PlainTitle(t) ==
    [raw |-> t, text |-> t, tags |-> <<>>, short |-> FALSE, reserved |-> FALSE,
     keywords |-> {}]

ImportArg(c, p, dr) ==
    [content |-> c, project |-> p, phase |-> "", default_priority |-> "P2", dry_run |-> dr]

OneItem == <<Item(0, PlainTitle("Task"))>>

(* --------------------------- specifications --------------------------- *)

Init ==
    /\ todos = <<>>
    /\ archive = <<>>
    /\ backlog = NoBacklog
    /\ today = 1
    /\ result = Result("none", NoId, "ok", FALSE)
    /\ libTasks = <<>>
    /\ libTask = [id |-> NoId]
    /\ libOut = [fn |-> "none", sorted |-> <<>>, met |-> FALSE]
    /\ inflight = <<>>

\* identifiers: every handler that allocates, moves or deletes an id
NextIds ==
    \/ \E p \in Projects : CreateTask(CreateArg(p, "todo", <<>>)) /\ Within(MaxNum)
    \/ \E id \in Ids : UpdateTask(id, [status |-> "done"])
    \/ \E id \in Ids : ArchiveTask(id, FALSE)
    \/ \E p \in Projects, dr \in BOOLEAN : ImportTasks(ImportArg(OneItem, p, dr)) /\ Within(MaxNum)
    \/ \E p \in Projects : AddToBacklog(AddArg(p)) /\ Within(MaxNum)
    \/ \E id \in Ids : PromoteTask(PromoteArg(id))
    \/ \E id \in Ids : RemoveFromBacklog(id)

SpecIds == Init /\ [][NextIds]_vars

\* scheduling: tasks with dependencies are created, worked on and archived
NextSched ==
    \/ \E p \in Projects, d \in {<<>>} \cup {<<(<<q, 1>>)>> : q \in Projects} :
          CreateTask(CreateArg(p, "todo", d)) /\ Within(MaxSched)
    \/ \E id \in Ids, st \in {"done", "blocked"} : UpdateTask(id, [status |-> st])
    \/ \E id \in Ids : ArchiveTask(id, FALSE)
    \/ \E l \in {1, DefaultLimit} : GetNextTask(GetNextArg(l))

SpecSched == Init /\ [][NextSched]_vars

\* cycles: tasks are created with dependencies on ids that exist or will
\* exist, their status and dependencies are updated, and the next tasks and
\* the lint report are asked for
CycleDeps == {<<>>} \cup {<<id>> : id \in Projects \X (1..MaxNum)}

NextCycle ==
    \/ \E p \in Projects, d \in CycleDeps :
          CreateTask(CreateArg(p, "todo", d)) /\ Within(MaxNum)
    \/ \E id \in Ids, st \in {"done", "in_progress"} : UpdateTask(id, [status |-> st])
    \/ \E id \in Ids, d \in CycleDeps : UpdateTask(id, [depends_on |-> d])
    \/ \E id \in Ids : ArchiveTask(id, FALSE)
    \/ GetNextTask(GetNextArg(DefaultLimit))
    \/ LintProjectDocs([fix |-> FALSE, scope |-> "all"])

SpecCycle == Init /\ [][NextCycle]_vars

\* descriptions: tasks are created with and without a description, and the
\* description is replaced and appended to
DescInputs == {"New", "append:More"}

NextDesc ==
    \/ \E p \in Projects, d \in {"", "Text"} :
          /\ CreateTask([CreateArg(p, "todo", <<>>) EXCEPT !.description = d])
          /\ Within(MaxNum)
    \/ \E id \in Ids, d \in DescInputs :
          /\ UpdateTask(id, [description |-> d])
          /\ \A t \in DOMAIN todos' : Len(todos'[t].body.desc) <= MaxParas
    \/ \E id \in Ids : UpdateTask(id, [status |-> "done"])
    \/ Tick

SpecDesc == Init /\ [][NextDesc]_vars

\* archiving: tasks of every status are archived, with and without force
NextArchive ==
    \/ \E p \in Projects, st \in VALID_STATUSES :
          CreateTask(CreateArg(p, st, <<>>)) /\ Within(MaxNum)
    \/ \E id \in Ids, force \in BOOLEAN : ArchiveTask(id, force)
    \/ GetNextTask(GetNextArg(DefaultLimit))
    \/ Tick

SpecArchive == Init /\ [][NextArchive]_vars

\* backlog: entries are added, edited, promoted, worked on and archived
NextBacklog ==
    \/ \E p \in Projects : AddToBacklog(AddArg(p)) /\ Within(MaxNum)
    \/ \E p \in Projects : ImportTasks(ImportArg(OneItem, p, FALSE)) /\ Within(MaxNum)
    \/ \E id \in Ids : PromoteTask(PromoteArg(id))
    \/ \E id \in Ids, u \in {[status |-> "done"], [owner |-> "alice"]} : UpdateTask(id, u)
    \/ \E id \in Ids : ArchiveTask(id, FALSE)
    \/ \E id \in Ids, pr \in {"", "P0"} :
          UpdateBacklogItem([task_id |-> id, title |-> "", priority |-> pr])
    \/ \E id \in Ids : RemoveFromBacklog(id)

SpecBacklog == Init /\ [][NextBacklog]_vars

\* editing the backlog: entries with and without subtasks are added and
\* imported into several sections, retitled, retagged, moved, promoted and
\* removed
TwoItems ==
    <<Item(0, PlainTitle("One")), Item(4, PlainTitle("Sub")), Item(0, PlainTitle("Two"))>>

EditArgs ==
    {[task_id |-> id, title |-> t, priority |-> pr] :
        id \in (Projects \X (1..MaxNum)), t \in {"", DollarTitle}, pr \in {"", "P0"}}
    \cup {[task_id |-> id, title |-> "New", priority |-> "", tags |-> <<"ui">>] :
              id \in (Projects \X (1..MaxNum))}

NextEdit ==
    \/ \E p \in Projects, pr \in {"P0", "P2"} :
          AddToBacklog([AddArg(p) EXCEPT !.priority = pr])
             /\ Within(MaxNum) /\ Len(backlog'.lines) <= MaxDoc
    \/ \E p \in Projects :
          ImportTasks(ImportArg(TwoItems, p, FALSE))
             /\ Within(MaxNum) /\ Len(backlog'.lines) <= MaxDoc
    \/ \E a \in EditArgs : UpdateBacklogItem(a) /\ Len(backlog'.lines) <= MaxDoc
    \/ \E id \in (Projects \X (1..MaxNum)) : RemoveFromBacklog(id)

SpecEdit == Init /\ [][NextEdit]_vars

\* promoting again: entries are added to one section, retitled with a title
\* that holds $1 while they are moved to that section, promoted and archived
NextRepromote ==
    \/ \E p \in Projects :
          AddToBacklog([AddArg(p) EXCEPT !.priority = "P0"])
             /\ Within(MaxNum) /\ Len(backlog'.lines) <= MaxLongDoc
    \/ \E id \in (Projects \X (1..MaxNum)) :
          UpdateBacklogItem([task_id |-> id, title |-> DollarTitle, priority |-> "P0"])
             /\ Len(backlog'.lines) <= MaxLongDoc
    \/ \E id \in Ids : PromoteTask(PromoteArg(id))
    \/ \E id \in Ids : ArchiveTask(id, TRUE)

SpecRepromote == Init /\ [][NextRepromote]_vars

\* the update_task calls that edit a task: the status and the checklists of
\* the body
TaskEdits ==
    {[status |-> "done"], [add_subtask |-> "Sub"], [complete_subtask |-> "Sub"]}

\* editing tasks: tasks created and tasks promoted from the backlog are
\* edited, and a done one is archived
NextFrame ==
    \/ \E p \in Projects : CreateTask(CreateArg(p, "todo", <<>>)) /\ Within(MaxNum)
    \/ \E p \in Projects : AddToBacklog(AddArg(p)) /\ Within(MaxNum - 1)
    \/ \E id \in Ids : PromoteTask(PromoteArg(id))
    \/ \E id \in Ids, u \in TaskEdits :
          /\ UpdateTask(id, u)
          /\ \A t \in DOMAIN todos' :
                Len(todos'[t].body.subs) + Len(todos'[t].body.notes) <= MaxSubs
    \/ \E id \in Ids :
          ArchiveTask(id, FALSE) /\ Cardinality(DOMAIN archive') < MaxNum

SpecFrame == Init /\ [][NextFrame]_vars

\* forced archiving: every archive_task call is made with force
NextForce ==
    \/ \E p \in Projects, st \in VALID_STATUSES :
          CreateTask(CreateArg(p, st, <<>>)) /\ Within(MaxNum)
    \/ \E id \in Ids : ArchiveTask(id, TRUE)
    \/ GetNextTask(GetNextArg(DefaultLimit))
    \/ Tick

SpecForce == Init /\ [][NextForce]_vars

\* filtering: tasks of two projects and two owners, and get_next_task
\* called with every combination of filters
NextFilter ==
    \/ \E p \in {"AUTH", "api"}, st \in {"todo", "blocked"}, ow \in Owners,
          d \in {<<>>, <<(<<"AUTH", 1>>)>>} :
          /\ getNextTaskId(p, todos) \in FilterIds
          /\ CreateTask([CreateArg(p, st, d) EXCEPT !.owner = ow])
    \/ \E id \in FilterIds : UpdateTask(id, [status |-> "done"])
    \/ \E a \in FilterArgs : GetNextTask(a)

SpecFilter == Init /\ [][NextFilter]_vars

\* creation: create_task with and without every argument, and the tasks
\* read back by get_next_task
NextCreate ==
    \/ \E a \in CreateInputs :
          Cardinality(DOMAIN todos) < MaxNum /\ CreateTask(a)
    \/ GetNextTask(GetNextArg(DefaultLimit))

SpecCreate == Init /\ [][NextCreate]_vars

\* dates: tasks are created, moved between statuses and archived while
\* the calendar advances
NextDates ==
    \/ \E p \in Projects, st \in {"todo", "done"} :
          CreateTask(CreateArg(p, st, <<>>)) /\ Within(MaxNum - 1)
    \/ \E id \in Ids, u \in {[status |-> "done"], [status |-> "todo"],
                              [owner |-> "alice"]} : UpdateTask(id, u)
    \/ \E id \in Ids, force \in BOOLEAN : ArchiveTask(id, force)
    \/ Tick

SpecDates == Init /\ [][NextDates]_vars

\* writes: tasks with valid and invalid priorities are created, updated,
\* linted and archived while the calendar advances
NextWrites ==
    \/ \E p \in Projects, pr \in {"P1", "urgent"} :
          /\ CreateTask([CreateArg(p, "todo", <<>>) EXCEPT !.priority = pr])
          /\ Within(MaxNum - 1)
    \/ \E id \in Ids, u \in {[status |-> "done"], [owner |-> "alice"]} :
          UpdateTask(id, u)
    \/ \E id \in Ids : ArchiveTask(id, TRUE)
    \/ \E a \in [fix : BOOLEAN, scope : {"all", "docs"}] : LintProjectDocs(a)
    \/ Tick

SpecWrites == Init /\ [][NextWrites]_vars

\* a title that contains the keyword urgent
UrgentTitle == [PlainTitle("Urgent fix") EXCEPT !.keywords = {"urgent"}]

\* the markdown handed to import_tasks: nothing, text without items, one
\* bullet, and a phase with two bullets of different priority, the first
\* with a nested bullet
ImportContents ==
    {<<>>,
     <<[k |-> "text"]>>,
     OneItem,
     <<H2("MVP"), Item(0, UrgentTitle), Item(4, PlainTitle("Sub")),
       Item(0, PlainTitle("Task"))>>}

ImportInputs ==
    {[ImportArg(c, p, dr) EXCEPT !.phase = ph] :
        c \in ImportContents, p \in {"AUTH", "auth"}, dr \in BOOLEAN, ph \in {"", "MVP"}}

\* importing: documents are imported, for real and as dry runs, next to
\* active and archived tasks
NextImport ==
    \/ \E p \in Projects : CreateTask(CreateArg(p, "todo", <<>>)) /\ Within(MaxNum - 1)
    \/ \E id \in Ids : ArchiveTask(id, TRUE)
    \/ \E a \in ImportInputs : ImportTasks(a) /\ Within(MaxSched)
    \/ \E id \in Ids : RemoveFromBacklog(id)

SpecImport == Init /\ [][NextImport]_vars

\* the tool calls in flight
Calls == 1..MaxCalls

\* create_task calls that differ in title and in the spelling of the project
RaceArgs ==
    {[CreateArg(p, "todo", <<>>) EXCEPT !.title = t] :
        p \in {"AUTH", "auth", "API"}, t \in {"One", "Two"}}

\* racing creates: create_task calls run one after the other, or suspended
\* between listing todos/ and writing their file while other calls run
NextRace ==
    \/ \E a \in RaceArgs : inflight = <<>> /\ CreateTask(a) /\ Within(MaxNum)
    \/ \E c \in Calls, a \in RaceArgs :
          CreateGetId(c, a) /\ inflight'[c].id[2] <= MaxNum
    \/ \E c \in Calls : CreateWriteFile(c)

SpecRace == Init /\ [][NextRace]_vars

\* stopping half way: one call at a time; promote_task and archive_task
\* run in their two steps, and the server may stop between them
NextCrash ==
    \/ \E p \in Projects : inflight = <<>> /\ AddToBacklog(AddArg(p)) /\ Within(MaxNum)
    \/ \E p \in Projects, st \in {"todo", "done"} :
          inflight = <<>> /\ CreateTask(CreateArg(p, st, <<>>)) /\ Within(MaxNum)
    \/ \E c \in Calls, id \in Ids :
          inflight = <<>> /\ PromoteWriteActive(c, PromoteArg(id))
    \/ \E c \in Calls : PromoteMark(c)
    \/ \E c \in Calls, id \in Ids, force \in BOOLEAN :
          inflight = <<>> /\ ArchiveWriteArchive(c, id, force)
    \/ \E c \in Calls : ArchiveUnlink(c)
    \/ Crash

SpecCrash == Init /\ [][NextCrash]_vars

\* the backlog calls that race: what is called and with what
LostIds == Projects \X (1..(MaxNum - 1))

BacklogCalls ==
    {<<"add_to_backlog", [AddArg(p) EXCEPT !.title = "One"]>> : p \in Projects}
    \cup {<<"import_tasks", ImportArg(OneItem, p, FALSE)>> : p \in Projects}
    \cup {<<"update_backlog_item", [task_id |-> id, title |-> "New", priority |-> pr]>> :
              id \in LostIds, pr \in {"", "P0"}}
    \cup {<<"remove_from_backlog", [task_id |-> id]>> : id \in LostIds}

\* lost updates: backlog handlers suspended between reading BACKLOG.md and
\* writing it while other backlog handlers run
NextLost ==
    \/ \E c \in Calls, call \in BacklogCalls :
          BacklogRead(c, call[1], call[2])
    \/ \E c \in Calls : BacklogWrite(c) /\ Within(MaxNum - 1)
    \/ \E c \in Calls, id \in LostIds : PromoteWriteActive(c, PromoteArg(id))
    \/ \E c \in Calls : PromoteMark(c)

SpecLost == Init /\ [][NextLost]_vars

\* promotion: backlog entries and directly created tasks side by side
NextPromote ==
    \/ \E p \in Projects : CreateTask(CreateArg(p, "todo", <<>>)) /\ Within(MaxNum)
    \/ \E p \in Projects : AddToBacklog(AddArg(p)) /\ Within(MaxNum)
    \/ \E id \in Ids : PromoteTask(PromoteArg(id))
    \/ \E id \in Ids : UpdateTask(id, [owner |-> "alice"])
    \/ \E id \in Ids : ArchiveTask(id, FALSE)
    \/ \E id \in Ids : UpdateBacklogItem([task_id |-> id, title |-> "", priority |-> ""])
    \/ \E id \in Ids : RemoveFromBacklog(id)
    \/ Tick

SpecPromote == Init /\ [][NextPromote]_vars

(* ------------------- the library functions on their own --------------- *)

LibIds == {<<"AUTH", n>> : n \in 1..LibMaxLen}

\* the arrays of n tasks drawn from T, no id twice
LibArrays(T, n) ==
    {s \in [1..n -> T] : \A i, j \in 1..n : i # j => s[i].id # s[j].id}

\* "urgent" is a priority outside P0..P3, which create_task does not reject
SortTasks ==
    {[id |-> id, status |-> st, priority |-> pr, due |-> du] :
        id \in LibIds, st \in {"todo", "in_progress"},
        pr \in {"P1", "urgent"}, du \in {NoDate, 1, 2}}

NoLibOut == [fn |-> "none", sorted |-> <<>>, met |-> FALSE]

EngineIdle ==
    /\ todos = <<>>
    /\ archive = <<>>
    /\ backlog = NoBacklog
    /\ today = 1
    /\ result = Result("none", NoId, "ok", FALSE)
    /\ inflight = <<>>

InitSort ==
    /\ EngineIdle
    /\ \E n \in 0..LibMaxLen : libTasks \in LibArrays(SortTasks, n)
    /\ libTask = [id |-> NoId]
    /\ libOut = NoLibOut

\* sortTasksByPriority(libTasks) is called
CallSort ==
    /\ libOut.fn = "none"
    /\ libOut' = [fn |-> "sort", sorted |-> sortTasksByPriority(libTasks), met |-> FALSE]
    /\ UNCHANGED <<engineVars, libTasks, libTask, inflight>>

SpecSort == InitSort /\ [][CallSort]_vars

\* the ids a dependency list may name: those of the snapshot and one more
DepIds == LibIds \cup {<<"AUTH", LibMaxLen + 1>>}

DepLists == {<<>>} \cup {<<a>> : a \in DepIds} \cup {<<a, b>> : a \in DepIds, b \in DepIds}

SnapshotTasks == {[id |-> id, status |-> st] : id \in LibIds, st \in {"todo", "done"}}

InitDeps ==
    /\ EngineIdle
    /\ \E n \in 0..LibMaxLen : libTasks \in LibArrays(SnapshotTasks, n)
    /\ libTask \in {[id |-> NoId]} \cup {[id |-> NoId, depends_on |-> d] : d \in DepLists}
    /\ libOut = NoLibOut

\* areDependenciesMet(libTask, libTasks) is called
CallDeps ==
    /\ libOut.fn = "none"
    /\ libOut' = [fn |-> "deps", sorted |-> <<>>, met |-> areDependenciesMet(libTask, libTasks)]
    /\ UNCHANGED <<engineVars, libTasks, libTask, inflight>>

SpecDeps == InitDeps /\ [][CallDeps]_vars

\* the lines of the documents: level-2 headings plain and with an
\* underscore, a level-3 heading, top-level bullets (plain, with a tag in
\* either case, too short, with a reserved marker in either case), a nested
\* bullet and other text
ParseLines ==
    {H2("MVP"), H2("release_1"), H3("API"),
     Item(0, TitleOf(<<Word("Fix")>>)),
     Item(0, TitleOf(<<Word("Add"), Bracket("security")>>)),
     Item(0, TitleOf(<<Word("Add"), Bracket("Security")>>)),
     Item(0, TitleOf(<<Word("ab")>>)),
     Item(0, TitleOf(<<Word("note:"), Word("x")>>)),
     Item(0, TitleOf(<<Word("Note:"), Word("x")>>)),
     Item(0, TitleOf(<<Word("Urgent"), Word("Fix")>>)),
     Item(0, TitleOf(<<Word("Follow"), Word("up")>>)),
     Item(0, TitleOf(<<Word("low"), Word("critical")>>)),
     Item(0, TitleOf(<<Word("Add"), Bracket("high")>>)),
     Item(4, TitleOf(<<Word("Sub")>>)),
     Item(4, TitleOf(<<Word("ab")>>)),
     Item(4, TitleOf(<<Word("note:"), Word("x")>>)),
     TabItem(TitleOf(<<Word("Sub")>>)),
     H1("Plan"),
     [k |-> "text"]}

InitParse ==
    /\ EngineIdle
    /\ \E n \in 0..MaxLines : libTasks \in [1..n -> ParseLines]
    /\ libTask = [id |-> NoId]
    /\ libOut = NoLibOut

\* parseTasksFromContent(libTasks, 'AUTH', 'P2') is called
CallParse ==
    /\ libOut.fn = "none"
    /\ libOut' = [fn |-> "parse", sorted |-> <<>>, met |-> FALSE,
                   tasks |-> parseTasksFromContent(libTasks, "AUTH", "P2")]
    /\ UNCHANGED <<engineVars, libTasks, libTask, inflight>>

SpecParse == InitParse /\ [][CallParse]_vars

(* ============================== claims ================================ *)

\* C1: an identifier newly allocated by create_task, import_tasks or
\* add_to_backlog is never one that BacklogStore, ActiveStore or ArchiveStore
\* holds at the moment of the call.
C1_AllocatedIdIsFresh ==
    [][/\ result'.op \in {"create_task", "add_to_backlog"}
            => result'.id \notin IdsInUse(todos, archive, backlog)
       /\ result'.op = "import_tasks"
            => Range(result'.out) \cap IdsInUse(todos, archive, backlog) = {}]_vars

\* the dependency list of the task asked about, empty when the field is absent
LibDeps == IF "depends_on" \in DOMAIN libTask THEN libTask.depends_on ELSE <<>>

\* the ids get_next_task returns for some order in which readdir lists todos/
MayReturn(dir, a) ==
    UNION {{t.id : t \in Range(getNextTaskOut(dir, order, a))} :
              order \in ReaddirOrders(DOMAIN dir)}

\* the ids get_next_task returns whatever the order in which readdir lists todos/
MustReturn(dir, a) ==
    {id \in DOMAIN dir :
        \A order \in ReaddirOrders(DOMAIN dir) :
            \E t \in Range(getNextTaskOut(dir, order, a)) : t.id = id}

\* C2: when archive_task moves a done task d to ArchiveStore, an active task
\* that lists d in depends_on and that get_next_task returned before the move
\* is still returned after it.
C2_ArchivedDependencyStillMet ==
    [][\A d \in Ids :
          (/\ result'.op = "archive_task" /\ result'.kind = "ok" /\ result'.id = d
           /\ d \in DOMAIN todos /\ todos[d].status = "done")
          => \A t \in DOMAIN todos \ {d} :
                (/\ d \in Range(todos[t].depends_on)
                 /\ t \in MayReturn(todos, GetNextArg(DefaultLimit)))
                => t \in MayReturn(todos', GetNextArg(DefaultLimit))]_vars

\* C3: areDependenciesMet(task, snapshot) is true exactly when depends_on is
\* absent or empty, or every id it lists is the id of a snapshot record
\* whose status is done; an id without a record makes it false.
C3_DependenciesMetIff ==
    libOut.fn = "deps" =>
        (libOut.met <=>
            \A d \in Range(LibDeps) :
                \E t \in Range(libTasks) : t.id = d /\ t.status = "done")

\* C3, its case: a list naming one done task and one id that has no record
C3_Witness ==
    /\ libOut.fn = "deps"
    /\ ~libOut.met
    /\ Len(LibDeps) = 2
    /\ \E t \in Range(libTasks) : t.id = LibDeps[1] /\ t.status = "done"
    /\ \A t \in Range(libTasks) : t.id # LibDeps[2]

\* the active tasks that are not done, not blocked and whose dependencies
\* are all active and done
ReadyIds ==
    {t \in DOMAIN todos :
        /\ todos[t].status \notin {"done", "blocked"}
        /\ \A d \in Range(todos[t].depends_on) :
              d \in DOMAIN todos /\ todos[d].status = "done"}

\* the limits a get_next_task call is made with
Limits == {1, DefaultLimit}

C5_PromoteTwiceWritesOnce ==
    [][\A id \in Ids :
          PromoteTask(PromoteArg(id)) =>
              /\ id \in DOMAIN todos =>
                    /\ result' = Result("promote_task", id, "already_active", FALSE)
                    /\ UNCHANGED stores
              /\ todos' # todos =>
                    /\ id \notin DOMAIN todos
                    /\ DOMAIN todos' = DOMAIN todos \cup {id}
                    /\ \A t \in DOMAIN todos : todos'[t] = todos[t]]_vars

\* C5, its case: an entry was promoted, update_task changed the owner of the
\* task, and a second promote_task returned the warning over the changed task
C5_Witness ==
    /\ result = Result("promote_task", result.id, "already_active", FALSE)
    /\ result.id \in DOMAIN todos
    /\ todos[result.id].owner = "alice"
    /\ \E i \in DOMAIN backlog.lines :
          /\ backlog.lines[i].k = "entry"
          /\ backlog.lines[i].id = result.id
          /\ backlog.lines[i].mark = "promoted"

\* what C6 says of a step: archive_task without force on an active task that
\* is not done answers as refused says and changes no store; a record enters
\* ArchiveStore only from a done task or by force
RefusesNotDone(refused(_)) ==
    \A id \in Ids :
        /\ (ArchiveTask(id, FALSE) /\ id \in DOMAIN todos /\ todos[id].status # "done")
              => (refused(id) /\ UNCHANGED stores)
        /\ (id \in DOMAIN archive' /\ (id \notin DOMAIN archive \/ archive'[id] # archive[id]))
              => (id \in DOMAIN todos /\ (todos[id].status = "done" \/ ArchiveTask(id, TRUE)))

Called(ops) == today' = today /\ result'.op \in ops

\* C7: update_task and archive_task with an id that has no file in todos/,
\* promote_task with an id that is neither active nor in BACKLOG.md, and
\* update_backlog_item and remove_from_backlog with an id that is not in
\* BACKLOG.md return a not-found error result and change no store.
C7_UnknownIdNotFound ==
    [][\A id \in Ids :
          (/\ result'.id = id
           /\ \/ Called({"update_task", "archive_task"}) /\ id \notin DOMAIN todos
              \/ Called({"promote_task"})
                    /\ id \notin DOMAIN todos /\ id \notin BacklogIds(backlog)
              \/ Called({"update_backlog_item", "remove_from_backlog"})
                    /\ id \notin BacklogIds(backlog))
          => (/\ result'.kind = "not_found"
              /\ result'.isError
              /\ UNCHANGED stores)]_vars

\* C7, its case: a backlog handler was called with an id that is in no
\* store while BACKLOG.md holds another entry and todos/ another task
C7_Witness ==
    /\ result.op \in {"promote_task", "update_backlog_item", "remove_from_backlog"}
    /\ result.kind = "not_found" /\ result.isError
    /\ result.id \notin IdsInUse(todos, archive, backlog)
    /\ BacklogIds(backlog) # {}
    /\ todos # <<>>

\* C8: archive_task with force on an active task of any status succeeds, the
\* record is then in ArchiveStore with archived equal to the current date
\* and absent from ActiveStore, and no get_next_task after it returns the
\* archived task.
C8_ForcedArchiveLeavesForGood ==
    [][/\ \A id \in Ids :
             (ArchiveTask(id, TRUE) /\ id \in DOMAIN todos) =>
                 /\ result' = Result("archive_task", id, "ok", FALSE)
                 /\ id \in DOMAIN archive' /\ archive'[id].archived = today
                 /\ id \notin DOMAIN todos'
       /\ Called({"get_next_task"}) => Range(result'.out) \cap DOMAIN archive = {}]_vars

\* the active tasks a get_next_task call with arguments a asks for: not
\* done, not blocked unless blocked tasks are included, of the owner and of
\* the project named, every dependency an active task that is done
Eligible(a) ==
    {t \in DOMAIN todos :
        /\ todos[t].status # "done"
        /\ (todos[t].status = "blocked" => a.include_blocked)
        /\ (a.owner # "" => todos[t].owner = a.owner)
        /\ (a.project # "" => t[1] = ToUpper(a.project))
        /\ \A d \in Range(todos[t].depends_on) :
              d \in DOMAIN todos /\ todos[d].status = "done"}

\* C11: in every state and for every choice of owner, project,
\* include_blocked and limit, get_next_task returns only eligible tasks,
\* and all of them when they number at most limit.
C11_ReturnsTheEligible ==
    \A a \in FilterArgs :
        \A order \in ReaddirOrders(DOMAIN todos) :
            LET out == {t.id : t \in Range(getNextTaskOut(todos, order, a))}
            IN  /\ out \subseteq Eligible(a)
                /\ Cardinality(Eligible(a)) <= a.limit => out = Eligible(a)

\* C11, its case: a get_next_task call returned one task, owned by alice,
\* while a blocked task without dependencies and a todo task whose
\* dependency is not done stayed out
C11_Witness ==
    /\ result.op = "get_next_task"
    /\ Len(result.out) = 1
    /\ \E t \in DOMAIN todos \ Range(result.out) :
          /\ todos[t].status = "blocked"
          /\ todos[t].depends_on = <<>>
    /\ \E t \in DOMAIN todos \ Range(result.out) :
          /\ todos[t].status = "todo"
          /\ todos[t].depends_on # <<>>
          /\ todos[todos[t].depends_on[1]].status # "done"
    /\ todos[result.out[1]].owner = "alice"

\* the records loadAllTasks reads from dir (in whatever order)
Loaded(dir) ==
    Range(loadAllTasks(dir, CHOOSE order \in ReaddirOrders(DOMAIN dir) : TRUE))

\* rec carries every argument of the call a but the project as the caller
\* gave it: the front-matter fields directly, the description as the
\* Description section and the subtasks as an unchecked checklist
FieldsAsSupplied(rec, a) ==
    /\ rec.title = a.title
    /\ rec.priority = a.priority
    /\ rec.status = a.status
    /\ rec.owner = a.owner
    /\ rec.depends_on = a.depends_on
    /\ rec.blocked_by = a.blocked_by
    /\ rec.tags = a.tags
    /\ rec.estimate = a.estimate
    /\ rec.due = a.due
    /\ rec.body.hasDesc = (a.description # "")
    /\ rec.body.desc = (IF a.description # "" THEN <<a.description>> ELSE <<>>)
    /\ rec.body.hasSubs = (a.subtasks # <<>>)
    /\ [i \in DOMAIN rec.body.subs |-> rec.body.subs[i].text] = a.subtasks
    /\ \A i \in DOMAIN rec.body.subs : ~rec.body.subs[i].done

C13_CompletedSetOnEnteringDone ==
    [][\A id \in Ids :
          /\ (id \in DOMAIN todos /\ id \in DOMAIN todos') =>
                todos'[id].completed =
                    IF /\ Called({"update_task"}) /\ result'.id = id
                       /\ todos[id].status # "done" /\ todos'[id].status = "done"
                    THEN today
                    ELSE todos[id].completed
          /\ (id \in DOMAIN todos /\ id \notin DOMAIN todos') =>
                /\ id \in DOMAIN archive'
                /\ archive'[id].completed = todos[id].completed
          /\ (id \in DOMAIN archive /\ ~(id \in DOMAIN todos /\ id \notin DOMAIN todos')) =>
                /\ id \in DOMAIN archive'
                /\ archive'[id].completed = archive[id].completed]_vars

\* C13, its case: a task completed on day 1 was updated to done again on
\* day 2 and kept its completion date
C13_Witness ==
    /\ result.op = "update_task" /\ result.kind = "ok"
    /\ result.id \in DOMAIN todos
    /\ today = 2
    /\ todos[result.id].status = "done"
    /\ todos[result.id].updated = 2
    /\ todos[result.id].completed = 1

\* C14: a step that changes a stored task record, in todos/ or on its way
\* to archive/, leaves the record with updated equal to the current date.
C14_EveryWriteStampsUpdated ==
    [][\A id \in Ids :
          /\ (id \in DOMAIN todos /\ id \in DOMAIN todos' /\ todos'[id] # todos[id])
                => todos'[id].updated = today
          /\ (id \in DOMAIN todos /\ id \notin DOMAIN todos' /\ id \in DOMAIN archive')
                => archive'[id].updated = today]_vars

\* the priority section an entry is listed under: the nearest section
\* heading above line i
ListedUnder(lines, i) ==
    LET hs == {j \in 1..(i - 1) : lines[j].k = "hdr"}
    IN  IF hs = {} THEN "none" ELSE lines[Max(hs)].pri

\* C15: a promote_task that creates a record gives it the priority argument
\* when there is one, and otherwise the priority of the section the backlog
\* entry was listed under.
C15_PromotedPriorityFromSection ==
    [][\A id \in Ids, pr \in {""} \cup VALID_PRIORITIES :
          (/\ PromoteTask([PromoteArg(id) EXCEPT !.priority = pr])
           /\ result'.kind = "ok")
          => todos'[id].priority =
                IF pr # "" THEN pr
                ELSE ListedUnder(backlog.lines, FindEntry(backlog.lines, id, {" "}))]_vars

\* C16: a record that archive/ holds is held unchanged after every step.
C16_ArchivedRecordIsFinal ==
    [][\A id \in DOMAIN archive :
          id \in DOMAIN archive' /\ archive'[id] = archive[id]]_vars

\* the backlog entries that carry the promoted marker
PromotedEntries(b) ==
    {b.lines[i] : i \in {j \in DOMAIN b.lines :
                            b.lines[j].k = "entry" /\ b.lines[j].mark = "promoted"}}

\* C17: an entry of BACKLOG.md that carries the promoted marker is still
\* in BACKLOG.md, marker included, after every step.
C17_PromotedEntryStays ==
    [][PromotedEntries(backlog) \subseteq PromotedEntries(backlog')]_vars

\* C17, its case: with a promoted entry in BACKLOG.md another entry was
\* moved to the P0 section, after the promoted entry's task was archived
C17_Witness ==
    /\ result.op = "update_backlog_item" /\ result.kind = "ok"
    /\ \E e \in PromotedEntries(backlog) :
          /\ e.id # result.id
          /\ e.id \in DOMAIN archive
          /\ ListedUnder(backlog.lines, FindEntry(backlog.lines, result.id, {" "})) = "P0"

\* C18: the ids an import_tasks call assigns are pairwise distinct, have
\* increasing numbers in candidate order, are held by no store at the moment
\* of the call, and none of them is the id of the entry that the call just
\* before, a remove_from_backlog, deleted.
C18_ImportIdsNeverReused ==
    [][result'.op = "import_tasks" =>
          LET ids == result'.out IN
          /\ \A i, j \in DOMAIN ids : i < j => ids[i][2] < ids[j][2]
          /\ Range(ids) \cap IdsInUse(todos, archive, backlog) = {}
          /\ (result.op = "remove_from_backlog" /\ result.kind = "ok")
                => result.id \notin Range(ids)]_vars

\* the candidates an import_tasks call extracts
Candidates(a) ==
    LET parsed == parseTasksFromContent(a.content, ToUpper(a.project), a.default_priority)
    IN  IF a.phase = "" THEN parsed
        ELSE SelectSeq(parsed, LAMBDA t : PhaseIncludes(t.phase, a.phase))

\* the lines of BACKLOG.md of one kind, in document order
LinesOfKind(b, k) == SelectSeq(b.lines, LAMBDA l : l.k = k)

RECURSIVE SubtaskCount(_, _)
SubtaskCount(cands, i) ==
    IF i > Len(cands) THEN 0 ELSE Len(cands[i].subtasks) + SubtaskCount(cands, i + 1)

HeadingAbove(lines, i) ==
    LET hs == {j \in 1..(i - 1) : lines[j].k = "h2"}
    IN  IF hs = {} THEN "" ELSE lines[Max(hs)].text

\* the strings of the tokens of one kind, in order
TokenStrings(tokens, k) ==
    LET ts == SelectSeq(tokens, LAMBDA t : t.k = k /\ t.s # "")
    IN  [i \in DOMAIN ts |-> ts[i].s]

\* the title begins with note:, see:, ref: or link: as written
BeginsWithMarker(tokens) ==
    /\ Len(tokens) > 0
    /\ tokens[1].k = "word"
    /\ tokens[1].s \in {"note:", "see:", "ref:", "link:"}

\* the top-level item lines of a document that are to yield a candidate,
\* in document order
YieldingLines(lines, skipped(_)) ==
    SelectSeq([i \in DOMAIN lines |-> i],
              LAMBDA i : /\ lines[i].k = "item"
                         /\ lines[i].indent <= 2
                         /\ TitleLength(lines[i].title.raw) >= 3
                         /\ ~skipped(lines[i].title.raw))

\* what the candidates taken from top-level lines show: the words of the
\* title, the tags and the phase
TopLevelCandidates(tasks) ==
    LET top == SelectSeq(tasks, LAMBDA t : t.isParent)
    IN  [i \in DOMAIN top |-> [words |-> TokenStrings(top[i].title, "word"),
                                tags |-> top[i].tags,
                                tagsLeft |-> TokenStrings(top[i].title, "tag"),
                                phase |-> top[i].phase]]

\* C20 as stated: the candidates taken from top-level lines are, in order,
\* one for every top-level item line whose title has at least 3 characters
\* and does not begin with note:, see:, ref: or link:, each with the text of
\* the nearest level-2 heading above as phase, the bracketed tokens of the
\* title as tags, and the title without them.
C20_Original ==
    libOut.fn = "parse" =>
        LET at == YieldingLines(libTasks, BeginsWithMarker) IN
        TopLevelCandidates(libOut.tasks)
            = [n \in DOMAIN at |->
                 [words |-> TokenStrings(libTasks[at[n]].title.raw, "word"),
                  tags |-> TokenStrings(libTasks[at[n]].title.raw, "tag"),
                  tagsLeft |-> <<>>,
                  phase |-> HeadingAbove(libTasks, at[n])]]

\* C20, amended: as C20_Original, where the markers note:, see:, ref: and
\* link: count in any letter case, the phase is the heading text with the
\* characters * and _ removed, and the tags are the bracketed tokens in
\* lower case.
C20_CandidatePerTopLevelLine ==
    libOut.fn = "parse" =>
        LET at == YieldingLines(libTasks, IsReserved) IN
        TopLevelCandidates(libOut.tasks)
            = [n \in DOMAIN at |->
                 LET tags == TokenStrings(libTasks[at[n]].title.raw, "tag") IN
                 [words |-> TokenStrings(libTasks[at[n]].title.raw, "word"),
                  tags |-> [i \in DOMAIN tags |-> toLowerCase(tags[i])],
                  tagsLeft |-> <<>>,
                  phase |-> StripEmphasis(HeadingAbove(libTasks, at[n]))]]

\* C20, its case: a level-2 heading with three bullets under it, one of
\* them with [security], gave three candidates of the heading's phase, one
\* of them tagged security
C20_Witness ==
    /\ libOut.fn = "parse"
    /\ Len(libTasks) = 4
    /\ libTasks[1] = H2("MVP")
    /\ \A i \in 2..4 : libTasks[i].k = "item"
    /\ Len(libOut.tasks) = 3
    /\ \A i \in 1..3 : libOut.tasks[i].phase = "MVP"
    /\ Cardinality({i \in 1..3 : libOut.tasks[i].tags = <<"security">>}) = 1
    /\ \E i \in 2..4 : libTasks[i].title.raw = <<Word("Add"), Bracket("security")>>

\* C21: the id create_task assigns has the number one above the largest
\* number among the ids of its project in BACKLOG.md, todos/ and archive/
\* together, 1 when there is none.
C21_CreateIdAboveAllStores ==
    [][result'.op = "create_task" =>
          LET nums == {id[2] : id \in {i \in IdsInUse(todos, archive, backlog) :
                                          i[1] = result'.id[1]}}
          IN  result'.id[2] = (IF nums = {} THEN 0 ELSE Max(nums)) + 1]_vars

\* C22: two create_task calls for one project that are both suspended
\* after listing the same files of todos/ hold the same id; and when a
\* suspended call writes its file after another call has written a file of
\* that id, the write replaces that record: todos/ holds as many files as
\* before, and the one of this id is the later caller's.
C22_RacingCreatesShareAnId ==
    [][/\ \A c, d \in DOMAIN inflight :
             (/\ inflight[c].files = inflight[d].files
              /\ ToUpper(inflight[c].a.project) = ToUpper(inflight[d].a.project))
             => inflight[c].id = inflight[d].id
       /\ \A c \in DOMAIN inflight :
             (/\ CreateWriteFile(c)
              /\ inflight[c].id \in DOMAIN todos
              /\ inflight[c].id \notin inflight[c].files)
             => /\ DOMAIN todos' = DOMAIN todos
                /\ todos'[inflight[c].id].title = inflight[c].a.title]_vars

\* C22, its case: of two calls that listed the same files one has written
\* its file, and the other is suspended holding the same id for a task of
\* another title
C22_Witness ==
    /\ result.op = "create_task"
    /\ \E c \in DOMAIN inflight :
          /\ inflight[c].id = result.id
          /\ inflight[c].id \in DOMAIN todos
          /\ inflight[c].id \notin inflight[c].files
          /\ todos[inflight[c].id].title # inflight[c].a.title
          /\ inflight[c].files # {}

\* C23: when the server stops while an archive_task call is between its
\* two writes, the task's id is in todos/ and in archive/; when it stops
\* while a promote_task call is between its two writes, the task is in
\* todos/ and its backlog entry is still pending.
C23_StoppedBetweenTheWrites ==
    [][Crash =>
          \A c \in DOMAIN inflight :
             /\ inflight[c].op = "archive_task"
                  => /\ inflight[c].id \in DOMAIN todos'
                     /\ inflight[c].id \in DOMAIN archive'
             /\ inflight[c].op = "promote_task"
                  => /\ inflight[c].id \in DOMAIN todos'
                     /\ FindEntry(backlog'.lines, inflight[c].id, {" "}) # 0]_vars

\* C23, its case: an archive_task call is between its two writes, its
\* task in todos/ and in archive/, while a task promoted by a call that was
\* stopped is in todos/ with its backlog entry still pending
C23_Witness ==
    /\ \E c \in DOMAIN inflight :
          /\ inflight[c].op = "archive_task"
          /\ inflight[c].id \in DOMAIN todos \cap DOMAIN archive
    /\ \E id \in DOMAIN todos :
          /\ FindEntry(backlog.lines, id, {" "}) # 0
          /\ todos[id].body = Body(TRUE, <<"Promoted from backlog.">>, TRUE, <<>>)

\* what a suspended backlog call writes when it alone changes the text it
\* read
WrittenAlone(call) ==
    IF call.op = "promote_task"
    THEN [call.backlog EXCEPT !.lines[call.at].mark = "promoted", !.lastUpdated = today]
    ELSE BacklogDoc(call.op, call.a, call.existingIds, call.backlog, today).doc

\* C24: when a backlog handler writes BACKLOG.md after another handler has
\* written it since this one read it, the document afterwards is the text
\* this handler read with this handler's change alone: what the other
\* handler wrote is gone.
C24_LaterWriterWins ==
    [][\A c \in DOMAIN inflight :
          (/\ BacklogWrite(c) \/ PromoteMark(c)
           /\ backlog # inflight[c].backlog)
          => backlog' = WrittenAlone(inflight[c])]_vars

\* C24, its case: a handler has written BACKLOG.md, and a suspended
\* handler that read the file before is about to write a document without
\* an entry line the first one wrote
C24_Witness ==
    /\ result.op \in {"import_tasks", "add_to_backlog", "promote_task",
                       "update_backlog_item"}
    /\ result.kind = "ok"
    /\ \E c \in DOMAIN inflight :
          /\ inflight[c].op \in {"import_tasks", "add_to_backlog", "promote_task",
                                  "update_backlog_item", "remove_from_backlog"}
          /\ inflight[c].backlog.exists
          /\ \E l \in Range(backlog.lines) :
                /\ l.k = "entry"
                /\ l \notin Range(inflight[c].backlog.lines)
                /\ l \notin Range(WrittenAlone(inflight[c]).lines)

\* the active tasks a chain of at most n depends_on edges leads to from the
\* tasks of from, inside the directory dir
RECURSIVE DependsOnWithin(_, _, _)
DependsOnWithin(from, dir, n) ==
    IF n = 0 THEN {}
    ELSE LET next == {d \in DOMAIN dir :
                         \E t \in from : d \in Range(dir[t].depends_on)}
         IN  next \cup DependsOnWithin(next, dir, n - 1)

\* id is a member of a set of tasks of dir whose depends_on edges form a cycle
OnCycle(id, dir) ==
    /\ id \in DOMAIN dir
    /\ id \in DependsOnWithin({id}, dir, Cardinality(DOMAIN dir))

\* the active tasks that are not done
NotDone(dir) == [id \in {t \in DOMAIN dir : dir[t].status # "done"} |-> dir[id]]

HoldsNewText(body, before, d) ==
    /\ body.hasDesc
    /\ body.desc = IF StartsWithAppend(d)
                   THEN Append(before.desc, Substring7(d))
                   ELSE <<d>>

\* C26: after update_task with a description on an active task, created with
\* or without a description, the stored record contains the new text
C26_DescriptionStored ==
    [][\A id \in DOMAIN todos, d \in DescInputs :
          UpdateTask(id, [description |-> d]) =>
             HoldsNewText(todos'[id].body, todos[id].body, d)]_vars

\* the lines of the document that are entries for id
EntriesFor(lines, id) == {i \in DOMAIN lines : lines[i].k = "entry" /\ lines[i].id = id}

\* the entry e after an update_backlog_item that gave the fields of a
Edited(e, a) ==
    [e EXCEPT !.title = IF a.title # "" THEN a.title ELSE @,
              !.tags = IF "tags" \in DOMAIN a THEN a.tags ELSE @,
              !.phase = IF "phase" \in DOMAIN a THEN a.phase ELSE @]

\* C27: after update_backlog_item(id, priority = p) on a pending entry the
\* document holds exactly one entry for id, listed under section p; after
\* update_backlog_item(id) without priority the entry is on the line it was
\* on, no other line has changed, and of the entry only the given title,
\* tags or phase have changed
C27_UpdateMovesOrEditsInPlace ==
    [][\A a \in EditArgs :
          (/\ UpdateBacklogItem(a)
           /\ FindEntry(backlog.lines, a.task_id, {" "}) # 0)
          => LET i == FindEntry(backlog.lines, a.task_id, {" "})
                 after == backlog'.lines
             IN  IF a.priority # ""
                 THEN /\ Cardinality(EntriesFor(after, a.task_id)) = 1
                      /\ \A j \in EntriesFor(after, a.task_id) :
                            ListedUnder(after, j) = a.priority
                 ELSE /\ Len(after) = Len(backlog.lines)
                      /\ \A j \in DOMAIN after :
                            after[j] = IF j = i THEN Edited(backlog.lines[i], a)
                                       ELSE backlog.lines[j]]_vars

\* the lines of the document that are not empty
FilledLines(lines) == SelectSeq(lines, LAMBDA l : l # Blank)

\* C28: after remove_from_backlog(id) on a pending entry the document holds
\* no entry for id, the subtask lines nested under the entry are gone with
\* it, and the other lines (headings, entries and their subtask lines) are
\* the ones that were there, in the order they were in
C28_RemoveTakesEntryAndSubtasks ==
    [][\A id \in (Projects \X (1..MaxNum)) :
          (/\ RemoveFromBacklog(id)
           /\ FindEntry(backlog.lines, id, {" "}) # 0)
          => LET i == FindEntry(backlog.lines, id, {" "})
                 j == LastSubLine(backlog.lines, i)
             IN  /\ EntriesFor(backlog'.lines, id) = {}
                 /\ FilledLines(backlog'.lines)
                       = FilledLines(SubSeq(backlog.lines, 1, i - 1)
                                        \o SubSeq(backlog.lines, j + 1, Len(backlog.lines)))]_vars

\* the entry lines of after whose id the document before did not hold
NewEntries(before, after) ==
    {j \in DOMAIN after.lines :
        after.lines[j].k = "entry" /\ after.lines[j].id \notin BacklogIds(before)}

\* in lines, every entry that was in the document before and is listed under
\* the section of the new entry on line j comes before line j
AfterOldEntries(before, lines, j) ==
    \A k \in DOMAIN lines :
        (/\ lines[k].k = "entry"
         /\ lines[k].id \in BacklogIds(before)
         /\ ListedUnder(lines, k) = ListedUnder(lines, j)) => k < j

\* C29: the entries that add_to_backlog and import_tasks insert are listed
\* under the section of their priority, after the entries that section
\* already held, and the entries of one import are in the order of the source
C29_InsertionAppends ==
    [][/\ \A p \in Projects, pr \in {"P0", "P2"} :
             AddToBacklog([AddArg(p) EXCEPT !.priority = pr]) =>
                /\ NewEntries(backlog, backlog') # {}
                /\ \A j \in NewEntries(backlog, backlog') :
                      /\ ListedUnder(backlog'.lines, j) = pr
                      /\ AfterOldEntries(backlog, backlog'.lines, j)
       /\ \A p \in Projects :
             (ImportTasks(ImportArg(TwoItems, p, FALSE)) /\ backlog' # backlog) =>
                /\ \A j \in NewEntries(backlog, backlog') :
                      /\ ListedUnder(backlog'.lines, j) = "P2"
                      /\ AfterOldEntries(backlog, backlog'.lines, j)
                /\ \A j, k \in NewEntries(backlog, backlog') :
                      (backlog'.lines[j].title = "One" /\ backlog'.lines[k].title = "Two")
                         => j < k]_vars

\* the column an item line begins at, a tab reaching to column 4
Columns(line) == IF "tab" \in DOMAIN line THEN 4 ELSE line.indent

RECURSIVE Nesting(_, _, _, _, _)
\* the candidates a document is to give, each with the words of its title
\* and the titles of the lines nested under it: acc holds the candidates of
\* the lines before line i, open says whether the last of them is open.
\* As stated, every heading closes the open candidate, a line is nested when
\* it begins after column 2, and every nested item line is attached; as
\* amended, the headings of level 2 and 3 close it, a line is nested when
\* more than 2 characters come before its marker, and the item lines that
\* give no candidate at top level (short or reserved title) are not
\* attached either.
Nesting(lines, i, acc, open, amended) ==
    IF i > Len(lines) THEN acc
    ELSE LET line == lines[i] IN
      CASE line.k \in {"h2", "h3"} -> Nesting(lines, i + 1, acc, FALSE, amended)
        [] line.k = "h1" -> Nesting(lines, i + 1, acc, amended /\ open, amended)
        [] line.k = "item" ->
             LET nested == IF amended THEN line.indent > 2 ELSE Columns(line) > 2
                 skipped == TitleLength(line.title.raw) < 3 \/ IsReserved(line.title.raw)
             IN  IF nested /\ open
                 THEN (IF amended /\ skipped
                       THEN Nesting(lines, i + 1, acc, open, amended)
                       ELSE Nesting(lines, i + 1,
                                    [acc EXCEPT ![Len(acc)].subs = Append(@, line.title.raw)],
                                    open, amended))
                 ELSE IF skipped
                 THEN Nesting(lines, i + 1, acc, open, amended)
                 ELSE Nesting(lines, i + 1,
                              Append(acc, [words |-> TokenStrings(line.title.raw, "word"),
                                           subs |-> <<>>]),
                              TRUE, amended)
        [] OTHER -> Nesting(lines, i + 1, acc, open, amended)

\* the candidates of the output, each with the words of its title and its
\* subtasks
Nested(tasks) ==
    [n \in DOMAIN tasks |-> [words |-> TokenStrings(tasks[n].title, "word"),
                             subs |-> tasks[n].subtasks]]

\* C30 as stated: a checklist or bullet line that begins after column 2
\* while a candidate is open becomes a subtask of the most recently created
\* candidate and no candidate of its own; a heading closes the open
\* candidate, and an indented line right after it is a new candidate
C30_Original ==
    libOut.fn = "parse" =>
        Nested(libOut.tasks) = Nesting(libTasks, 1, <<>>, FALSE, FALSE)

\* C30, amended: as C30_Original, where a line is nested when more than 2
\* characters come before its marker (a tab is one character), a nested line
\* whose title is shorter than 3 characters or begins with a reserved marker
\* is dropped, and the headings that close the open candidate are those of
\* level 2 and 3
C30_SubtasksOfOpenParent ==
    libOut.fn = "parse" =>
        Nested(libOut.tasks) = Nesting(libTasks, 1, <<>>, FALSE, TRUE)

\* C30, its case: under a candidate a nested line became its subtask, and
\* after a level-3 heading the next nested line became a candidate of its own
C30_Witness ==
    /\ libOut.fn = "parse"
    /\ Len(libTasks) = 4
    /\ libTasks[1].k = "item" /\ libTasks[1].indent = 0
    /\ libTasks[2].k = "item" /\ libTasks[2].indent > 2
    /\ libTasks[3].k = "h3"
    /\ libTasks[4].k = "item" /\ libTasks[4].indent > 2
    /\ Len(libOut.tasks) = 2
    /\ libOut.tasks[1].subtasks = <<libTasks[2].title.raw>>
    /\ ~libOut.tasks[2].isParent
    /\ libOut.tasks[2].subtasks = <<>>

\* the priority keywords the title of a candidate held as it was written:
\* those in the words left in the title and those in its tags
KeywordsWritten(task) ==
    {kw \in {PRIORITY_KEYWORDS[i][1] : i \in DOMAIN PRIORITY_KEYWORDS} :
        \/ \E i \in DOMAIN task.title : Includes(toLowerCase(task.title[i].s), kw)
        \/ \E i \in DOMAIN task.tags : Includes(task.tags[i], kw)}

\* C31: a candidate's priority is P0 when its lower-cased title holds
\* critical, blocker or urgent, else P1 when it holds high or important, else
\* P2 when it holds medium or normal, else P3 when it holds low, minor or
\* nice-to-have, and the caller's default (P2 here) when it holds none
C31_PriorityFromFirstKeyword ==
    libOut.fn = "parse" =>
        \A n \in DOMAIN libOut.tasks :
            LET kws == KeywordsWritten(libOut.tasks[n]) IN
            libOut.tasks[n].priority =
                IF kws \cap {"critical", "blocker", "urgent"} # {} THEN "P0"
                ELSE IF kws \cap {"high", "important"} # {} THEN "P1"
                ELSE IF kws \cap {"medium", "normal"} # {} THEN "P2"
                ELSE IF kws \cap {"low", "minor", "nice-to-have"} # {} THEN "P3"
                ELSE "P2"

\* C31, its case: one document gave a candidate of the default priority, one
\* of P0 whose title holds a keyword of P3 as well, and one of P3
C31_Witness ==
    /\ libOut.fn = "parse"
    /\ Len(libOut.tasks) = 3
    /\ \E n \in 1..3 : /\ libOut.tasks[n].priority = "P2"
                       /\ KeywordsWritten(libOut.tasks[n]) = {}
    /\ \E n \in 1..3 : /\ libOut.tasks[n].priority = "P0"
                       /\ KeywordsWritten(libOut.tasks[n]) = {"low", "critical"}
    /\ \E n \in 1..3 : /\ libOut.tasks[n].priority = "P3"
                       /\ KeywordsWritten(libOut.tasks[n]) = {"low"}

\* C32: the lifecycle has an unarchive edge: whenever a record is in the
\* archive, some operation of the engine can take it out of the archive and
\* put it, with the status it had, among the active tasks.
C32_UnarchiveEdge ==
    \A id \in DOMAIN archive :
        ENABLED (/\ NextArchive
                 /\ id \notin DOMAIN archive'
                 /\ id \in DOMAIN todos'
                 /\ todos'[id].status = archive[id].status)

\* no operation takes a record out of the archive
C32_ArchiveKeepsRecords ==
    [][DOMAIN archive \subseteq DOMAIN archive']_vars


\* the task id of dir lists its own id in depends_on
SelfDependent(id, dir) == id \in DOMAIN dir /\ id \in Range(dir[id].depends_on)

\* C33: create_task and update_task accept a depends_on that contains the
\* task's own id without an error and store it, and get_next_task never
\* returns a task that lists its own id in depends_on.
C33_SelfDependentNeverNext ==
    /\ [](result.op = "get_next_task" =>
             \A i \in DOMAIN result.out : ~SelfDependent(result.out[i], todos))
    /\ [][\A p \in Projects, d \in CycleDeps :
             CreateTask(CreateArg(p, "todo", d)) =>
                /\ ~result'.isError
                /\ result'.id \in DOMAIN todos'
                /\ todos'[result'.id].depends_on = d]_vars
    /\ [][\A id \in DOMAIN todos :
             UpdateTask(id, [depends_on |-> <<id>>]) =>
                /\ ~result'.isError
                /\ todos'[id].depends_on = <<id>>]_vars

\* get_next_task has answered while an active task that is not done lists
\* its own id, and a done one does too
C33_Witness ==
    /\ result.op = "get_next_task"
    /\ ~result.isError
    /\ \E A, B \in DOMAIN todos :
          /\ SelfDependent(A, todos) /\ todos[A].status = "in_progress"
          /\ SelfDependent(B, todos) /\ todos[B].status = "done"


\* C34: every active or archived record whose status is done has a
\* completed date.
C34_DoneHasCompleted ==
    /\ \A id \in DOMAIN todos :
          todos[id].status = "done" => todos[id].completed # NoDate
    /\ \A id \in DOMAIN archive :
          archive[id].status = "done" => archive[id].completed # NoDate


\* the ids promote_task has written an active record for: their backlog
\* entry carries the promoted mark
Promoted(lines) ==
    {lines[i].id : i \in {j \in DOMAIN lines :
                             lines[j].k = "entry" /\ lines[j].mark = "promoted"}}

\* C35: promote_task writes an active record for a backlog id at most once:
\* once the id has been promoted, a further promote_task on it writes no
\* active record, and when the promoted task is no longer active the call
\* fails with not found.
C35_PromotedAtMostOnce ==
    [][\A id \in Promoted(backlog.lines) :
          PromoteTask(PromoteArg(id)) =>
             /\ todos' = todos
             /\ id \notin DOMAIN todos =>
                   result'.isError /\ result'.kind = "not_found"]_vars


\* C36: while an archive_task call is between its two file operations, and
\* when the server stops there, the task it archives is in todos/ or in
\* archive/; no step of archive_task takes a task out of both.
C36_ArchivedTaskNeverAbsent ==
    /\ [](\A c \in DOMAIN inflight :
             inflight[c].op = "archive_task" =>
                inflight[c].id \in DOMAIN todos \cup DOMAIN archive)
    /\ [][\A id \in DOMAIN todos \cup DOMAIN archive :
             id \in DOMAIN todos' \cup DOMAIN archive']_vars

\* an archive_task call is between its two file operations while an earlier
\* call has moved another task to archive/ in full
C36_Witness ==
    \E c \in DOMAIN inflight, other \in DOMAIN archive \ DOMAIN todos :
        /\ inflight[c].op = "archive_task"
        /\ inflight[c].id # other
        /\ inflight[c].id \in DOMAIN todos


\* C37: a successful archive_task leaves every field of the moved record but
\* archived and updated as it was in todos/, the body included, and changes
\* no other active task and nothing in BACKLOG.md.
C37_ArchiveChangesOnlyItsStamps ==
    [][\A id \in DOMAIN todos, force \in BOOLEAN :
          (ArchiveTask(id, force) /\ result'.kind = "ok") =>
             /\ id \in DOMAIN archive'
             /\ DOMAIN archive'[id] = DOMAIN todos[id]
             /\ \A f \in DOMAIN todos[id] \ {"archived", "updated"} :
                   archive'[id][f] = todos[id][f]
             /\ DOMAIN todos' = DOMAIN todos \ {id}
             /\ \A o \in DOMAIN todos' : todos'[o] = todos[o]
             /\ backlog' = backlog]_vars

\* archive_task has moved a done task, completed on an earlier day, while
\* another task is active and the backlog holds an entry
C37_Witness ==
    /\ result.op = "archive_task" /\ result.kind = "ok"
    /\ result.id \in DOMAIN archive \ DOMAIN todos
    /\ archive[result.id].status = "done"
    /\ archive[result.id].completed # NoDate
    /\ DOMAIN todos # {}
    /\ \E i \in DOMAIN backlog.lines : backlog.lines[i].k = "entry"


\* the fields in which the records a and b differ
Changed(a, b) ==
    {f \in DOMAIN a \cup DOMAIN b :
        f \notin DOMAIN a \/ f \notin DOMAIN b \/ a[f] # b[f]}

\* the field of the record that an argument of update_task names: the
\* description and the two subtask arguments name the body
Named(u) ==
    {IF f \in {"description", "add_subtask", "complete_subtask"} THEN "body" ELSE f :
        f \in DOMAIN u}

\* C38: a successful update_task changes, in the record of its id, only the
\* fields its arguments name, updated, and completed when the status becomes
\* done from another status; id, project and created stay, every other
\* active task is as it was, and BACKLOG.md and archive/ are as they were.
C38_UpdateChangesOnlyNamedFields ==
    [][\A id \in DOMAIN todos, u \in TaskEdits :
          (UpdateTask(id, u) /\ ~result'.isError) =>
             /\ DOMAIN todos' = DOMAIN todos
             /\ Changed(todos[id], todos'[id]) \subseteq
                   Named(u) \cup {"updated"}
                      \cup (IF "status" \in DOMAIN u /\ u.status = "done"
                               /\ todos[id].status # "done"
                            THEN {"completed"} ELSE {})
             /\ Changed(todos[id], todos'[id]) \cap {"id", "project", "created"} = {}
             /\ \A o \in DOMAIN todos \ {id} : todos'[o] = todos[o]
             /\ backlog' = backlog
             /\ archive' = archive]_vars

\* update_task has added a subtask to a task promoted from the backlog, next
\* to another active task, an archived task and the backlog entry
C38_Witness ==
    /\ result.op = "update_task" /\ ~result.isError
    /\ result.id \in DOMAIN todos
    /\ todos[result.id].body.notes # <<>>
    /\ DOMAIN todos # {result.id}
    /\ archive # <<>>
    /\ \E i \in DOMAIN backlog.lines : backlog.lines[i].k = "entry"


\* the subtask lines that follow the first entry of id in lines
SubsOf(lines, id) ==
    LET i == FindEntry(lines, id, {" ", "x", "promoted"})
    IN  IF i = 0 THEN <<>> ELSE SubSeq(lines, i + 1, LastSubLine(lines, i))

\* every subtask line of lines follows an entry or another subtask line
NoLooseSubs(lines) ==
    \A i \in DOMAIN lines :
        lines[i].k = "sub" => i > 1 /\ lines[i - 1].k \in {"entry", "sub"}

\* C39: update_backlog_item, promote_task and remove_from_backlog leave
\* every entry that stays in BACKLOG.md followed by the subtask lines that
\* followed it before, and leave no subtask line without its entry.
C39_SubtasksStayWithEntry ==
    [][result'.op \in {"update_backlog_item", "promote_task", "remove_from_backlog"} =>
          /\ \A id \in BacklogIds(backlog) \cap BacklogIds(backlog') :
                SubsOf(backlog'.lines, id) = SubsOf(backlog.lines, id)
          /\ NoLooseSubs(backlog.lines) => NoLooseSubs(backlog'.lines)]_vars


\* C9: in the output of sortTasksByPriority every in_progress task precedes
\* every task that is not in_progress, whatever their priorities, due dates
\* and ids.
C9_InProgressFirst ==
    libOut.fn = "sort" =>
        \A i, j \in DOMAIN libOut.sorted :
            (libOut.sorted[i].status = "in_progress"
                /\ libOut.sorted[j].status # "in_progress") => i < j

\* C9, its case: an in_progress task of lower priority, without due date
\* and with the larger id, listed second in the input, comes out before a
\* P1 task due on day 1
C9_Witness ==
    /\ libOut.fn = "sort"
    /\ Len(libTasks) = 2
    /\ libTasks[1].status = "todo" /\ libTasks[1].priority = "P1"
    /\ libTasks[1].due = 1 /\ libTasks[1].id = <<"AUTH", 1>>
    /\ libTasks[2].status = "in_progress" /\ libTasks[2].priority = "urgent"
    /\ libTasks[2].due = NoDate /\ libTasks[2].id = <<"AUTH", 2>>
    /\ libOut.sorted = <<libTasks[2], libTasks[1]>>

\* C10: two tasks of the output that agree on status class, priority and due
\* date (both absent or both the same date) appear in ascending id order.
C10_TiesInIdOrder ==
    libOut.fn = "sort" =>
        \A i, j \in DOMAIN libOut.sorted :
            (/\ i < j
             /\ (libOut.sorted[i].status = "in_progress")
                    = (libOut.sorted[j].status = "in_progress")
             /\ libOut.sorted[i].priority = libOut.sorted[j].priority
             /\ libOut.sorted[i].due = libOut.sorted[j].due)
            => IdCompare(libOut.sorted[i].id, libOut.sorted[j].id) < 0

====
